---------------------------- MODULE Spec2Model ----------------------------
(***************************************************************************)
(* Model of the STM32 I2C master-mode driver                               *)
(* arch/arm/src/stm32/stm32_i2c_alt.c: the interrupt service routine       *)
(* stm32_i2c_isr (the transaction engine), the wait stm32_i2c_sem_waitdone *)
(* in its interrupt-driven and polled builds, stm32_i2c_sem_waitstop and   *)
(* the orchestrator stm32_i2c_process with its exclusion semaphore.        *)
(*                                                                         *)
(* Register bits and message flags are modelled as sets of bit names:      *)
(* (reg & BIT) != 0 is  "BIT" \in reg,  modifyreg(clear, set) is           *)
(* (reg \ clear) \cup set.                                                 *)
(***************************************************************************)
EXTENDS Integers, Sequences, FiniteSets, TLC

\* ------------------------------------------------------------------------
\* Bounds of the model
\* ------------------------------------------------------------------------

\* Longest message (bytes) a caller submits.
MaxLen == 4

\* Most messages in one transfer request.
MaxMsgs == 2

\* Number of caller threads sharing the controller.
NThreads == 2

\* Wait timeout, in system timer ticks.
TimeoutTicks == 1

\* ------------------------------------------------------------------------
\* Types
\* ------------------------------------------------------------------------

\* enum stm32_intstate_e
INTSTATE_IDLE == "IDLE"
INTSTATE_WAITING == "WAITING"
INTSTATE_DONE == "DONE"

\* I2C_CR2_ALLINTS: the three interrupt enable bits of CR2
I2C_CR2_ALLINTS == {"ITERREN", "ITEVFEN", "ITBUFEN"}

\* I2C_SR1_ERRORMASK: the error bits of SR1 that stm32_i2c_process tests
I2C_SR1_ERRORMASK ==
  {"BERR", "ARLO", "AF", "OVR", "PECERR", "TIMEOUT", "SMBALERT"}

\* The message flags the driver looks at (I2C_M_READ, I2C_M_TEN,
\* I2C_M_NORESTART).
FlagSets == {{}, {"READ"}, {"NORESTART"}, {"TEN"}, {"READ", "NORESTART"}}

\* Target addresses: a message at position i of a request goes to the
\* target of the first message, AddrOf(1), or to a target of its own,
\* AddrOf(i).
AddrOf(i) == 16 + i

\* Content of the caller's buffer of write message i at offset j (1-based).
\* An offset past the end of the buffer reads memory the caller does not
\* own; 255 stands for that foreign byte.
BufByte(len, i, j) == IF j <= len THEN 32 * i + j ELSE 255

\* Largest value of the uint8_t fields of struct stm32_i2c_priv_s
UINT8_MAX == 255

\* Lengths just past UINT8_MAX, whose 8-bit snapshot total_msg_len is 0, 1
\* or 2
LongLens == {UINT8_MAX + 1 + k : k \in 0 .. 2}

\* struct i2c_msg_s: addr, flags, length (the buffer is BufByte for a write
\* and rxbuf for a read).  Reads may also have one of the long lengths.
Msgs ==
  [addr : {0, 1}, flags : FlagSets, length : 0 .. MaxLen]
    \cup [addr : {0, 1}, flags : {f \in FlagSets : "READ" \in f},
          length : LongLens]

\* The transfer requests made of the messages M: non-empty arrays of
\* messages (ASSERT(count)).
RequestsOf(M) ==
  UNION { { [i \in 1 .. n |->
                [f[i] EXCEPT !.addr = IF f[i].addr = 0 THEN AddrOf(1)
                                      ELSE AddrOf(i)]] :
              f \in [1 .. n -> M] } : n \in 1 .. MaxMsgs }

Requests == RequestsOf(Msgs)

\* The requests whose messages all go to one target and have at most one
\* byte
ShortRequests == RequestsOf({m \in Msgs : m.addr = 0 /\ m.length <= 1})

\* ------------------------------------------------------------------------
\* CONFIG_STM32_I2C_DYNTIMEO: the timeout that grows with the request
\* ------------------------------------------------------------------------

\* CONFIG_STM32_I2C_DYNTIMEO_USECPERBYTE: microseconds allowed per byte
CONFIG_STM32_I2C_DYNTIMEO_USECPERBYTE == 500

\* USEC_PER_TICK: microseconds per system timer tick
USEC_PER_TICK == 10000

\* Nanosecond counts are held in units of NSUNIT nanoseconds.  The second
\* (10^9 ns) and the range of a 32-bit long (2^32 ns) are both multiples of
\* the unit, so sums, the wrap at 32 bits and the carry into tv_sec are
\* exact on counts that are multiples of it.
NSUNIT == 512

\* 1000 * 1000 * 1000 nanoseconds, in units
NSEC_PER_SEC == 1000000000 \div NSUNIT

\* 2^32 nanoseconds, in units: the range of unsigned long and of long
ULONG_RANGE == (65536 \div NSUNIT) * 65536

\* The message lengths of the requests that the timeout is computed for:
\* multiples of 16 bytes, whose time at CONFIG_STM32_I2C_DYNTIMEO_USECPERBYTE
\* is a multiple of the unit
BigLens == {0, 16, 1008, 2000, 2016, 4000, 4096, 8000, 8192}

BigRequests ==
  UNION { [1 .. n -> [addr : {AddrOf(1)}, flags : {{}}, length : BigLens]] :
            n \in 1 .. MaxMsgs }

\* struct timespec values of the clock: tv_nsec in units
TimeZero == [tv_sec |-> 0, tv_nsec |-> 0]

Clocks ==
  [tv_sec : {0, 7},
   tv_nsec : {0, 1, NSEC_PER_SEC \div 2, NSEC_PER_SEC - 1}]

\* The bytes of the msgc messages of msgs from position first on
RECURSIVE ByteCount(_, _, _)
ByteCount(msgc, msgs, first) ==
  IF msgc = 0 \/ first > Len(msgs) THEN 0
  ELSE msgs[first].length + ByteCount(msgc - 1, msgs, first + 1)

\* stm32_i2c_tousecs: a delay in microseconds for the bytes left (the
\* lengths of BigRequests keep the product below the range of useconds_t)
stm32_i2c_tousecs(msgc, msgs, first) ==
  CONFIG_STM32_I2C_DYNTIMEO_USECPERBYTE * ByteCount(msgc, msgs, first)

\* USEC2TICK of nuttx/clock.h: microseconds to ticks, rounded
USEC2TICK(usec) == (usec + USEC_PER_TICK \div 2) \div USEC_PER_TICK

\* 1000 * usecs, an unsigned 32-bit product of nanoseconds, in units
\* (1000 / NSUNIT = 125 / 64)
UsecToNsec(usecs) == ((usecs * 125) \div 64) % ULONG_RANGE

\* The conversion of an unsigned long to the long tv_nsec
ToLong(n) == IF n >= ULONG_RANGE \div 2 THEN n - ULONG_RANGE ELSE n

\* abstime as stm32_i2c_sem_waitdone computes it from the clock value clk:
\* tv_nsec += 1000 * usecs in unsigned 32-bit arithmetic, then one carry
\* into tv_sec
Deadline(clk, usecs) ==
  LET ns == ToLong((clk.tv_nsec + UsecToNsec(usecs)) % ULONG_RANGE)
  IN  IF ns >= NSEC_PER_SEC
      THEN [tv_sec |-> clk.tv_sec + 1, tv_nsec |-> ns - NSEC_PER_SEC]
      ELSE [tv_sec |-> clk.tv_sec, tv_nsec |-> ns]

\* A register access of the driver:
\*   CR1 / CR2 : modifyreg, clr = bits cleared, set = bits set
\*   DRW_ADDR  : write of the address byte val to DR
\*   DRW_DATA  : write of the data byte val to DR
\*   DRR       : read of DR stored at offset val of message idx's buffer
\*   SR2       : read of SR2
\*   POST      : sem_post(&priv->sem_isr)
Op(o, x, y) == [op |-> o, clr |-> x, set |-> y, idx |-> 0, val |-> 0]
DataOp(o, i, v) == [op |-> o, clr |-> {}, set |-> {}, idx |-> i, val |-> v]

\* ------------------------------------------------------------------------
\* Register helpers of the driver
\* ------------------------------------------------------------------------

\* stm32_i2c_sendstart: clear ACK, set START
stm32_i2c_sendstart == Op("CR1", {"ACK"}, {"START"})

\* stm32_i2c_clrstart: clear START, STOP and PEC
stm32_i2c_clrstart == Op("CR1", {"START", "STOP", "PEC"}, {})

\* stm32_i2c_sendstop: clear ACK, set STOP
stm32_i2c_sendstop == Op("CR1", {"ACK"}, {"STOP"})

\* Reading SR2 after SR1
ReadSR2 == Op("SR2", {}, {})


\* ------------------------------------------------------------------------
\* stm32_i2c_isr: the transaction engine
\*
\* p is struct stm32_i2c_priv_s (the session state), st the SR1 value the
\* invocation reads, msgs the caller's message array, polled the build
\* option CONFIG_I2C_POLLED.  Every part returns the new session state and
\* the register accesses it made, in order: [p |-> ..., ops |-> <<...>>].
\* ------------------------------------------------------------------------

\* Conversion to uint8_t (total_msg_len, msgc)
Uint8(n) == n % (UINT8_MAX + 1)

\* A switch to the next message that never moves the message pointer
MsgAdvance_stay(p, msgs) ==
  IF p.dcnt = -1 /\ p.msgc > 0
  THEN [p EXCEPT !.cur = p.msgv,
                 !.ptr = 0,
                 !.dcnt = msgs[p.msgv].length,
                 !.total_msg_len = Uint8(msgs[p.msgv].length),
                 !.flags = msgs[p.msgv].flags,
                 !.msgc = p.msgc - 1]
  ELSE p

\* A switch to the next message whenever messages remain, whatever the
\* byte counter
MsgAdvance_always(p, msgs) ==
  IF p.msgc > 0
  THEN [p EXCEPT !.cur = p.msgv,
                 !.ptr = 0,
                 !.dcnt = msgs[p.msgv].length,
                 !.total_msg_len = Uint8(msgs[p.msgv].length),
                 !.flags = msgs[p.msgv].flags,
                 !.msgc = p.msgc - 1,
                 !.msgv = IF p.msgc - 1 = 0 THEN p.msgv ELSE p.msgv + 1]
  ELSE p

\* Messages handling (1/2): switch to the next message
MsgAdvance(p, msgs) ==
  IF p.dcnt = -1 /\ p.msgc > 0
  THEN [p EXCEPT !.cur = p.msgv,
                 !.ptr = 0,
                 !.dcnt = msgs[p.msgv].length,
                 !.total_msg_len = Uint8(msgs[p.msgv].length),
                 !.flags = msgs[p.msgv].flags,
                 !.msgc = p.msgc - 1,
                 !.msgv = IF p.msgc - 1 = 0 THEN p.msgv ELSE p.msgv + 1]
  ELSE p

\* The address byte written after START: priv->msgv->addr shifted left with
\* the read bit of priv->flags, or 0 for ten-bit addressing
AddrByte(p, msgs) ==
  IF "TEN" \in p.flags
  THEN 0
  ELSE 2 * msgs[p.msgv].addr + (IF "READ" \in p.flags THEN 1 ELSE 0)

\* ACK/NACK/POS programming of the start-bit branch
AckPosOps(p) ==
  IF p.total_msg_len = 1 /\ "READ" \in p.flags
  THEN << Op("CR1", {"POS"}, {}), Op("CR1", {"ACK"}, {}) >>
  ELSE IF p.total_msg_len = 2 /\ "READ" \in p.flags
  THEN << Op("CR1", {}, {"POS"}), Op("CR1", {}, {"ACK"}) >>
  ELSE << Op("CR1", {"POS"}, {}), Op("CR1", {}, {"ACK"}) >>

\* An address handling that addresses the target for an empty message too
AddrHandling_always(p, msgs) ==
  [p |-> [p EXCEPT !.check_addr_ACK = TRUE],
   ops |-> AckPosOps(p) \o << DataOp("DRW_ADDR", p.cur, AddrByte(p, msgs)) >>]

\* Address handling: the start bit is set
AddrHandling(p, msgs) ==
  IF p.dcnt > 0
  THEN [p |-> [p EXCEPT !.check_addr_ACK = TRUE],
        ops |-> AckPosOps(p) \o << DataOp("DRW_ADDR", p.cur, AddrByte(p, msgs)) >>]
  ELSE [p |-> [p EXCEPT !.dcnt = -1],
        ops |-> << Op("CR2", {}, {"ITBUFEN"}) >>]

\* An address NACK handler that aborts without releasing the bus
AddrNack_nostop(p) ==
  [p |-> [p EXCEPT !.dcnt = -1, !.msgc = 0, !.check_addr_ACK = FALSE],
   ops |-> << >>]

\* NACK after an address (interrupt-driven build only)
AddrNack(p) ==
  [p |-> [p EXCEPT !.dcnt = -1, !.msgc = 0, !.check_addr_ACK = FALSE],
   ops |-> << stm32_i2c_sendstop >>]

\* An address-ACK handler that leaves the STOP of a one-byte read out
AddrAckRead_nostop(p) ==
  IF p.dcnt = 1 /\ p.total_msg_len = 1
  THEN [p |-> [p EXCEPT !.check_addr_ACK = FALSE, !.dcnt = p.dcnt - 1],
        ops |-> << ReadSR2, Op("CR2", {}, {"ITBUFEN"}) >>]
  ELSE IF p.dcnt = 2 /\ p.total_msg_len = 2
  THEN [p |-> [p EXCEPT !.check_addr_ACK = FALSE],
        ops |-> << ReadSR2, Op("CR1", {"ACK"}, {}) >>]
  ELSE [p |-> [p EXCEPT !.check_addr_ACK = FALSE],
        ops |-> << ReadSR2 >>]

\* ACK after an address in read mode
AddrAckRead(p) ==
  IF p.dcnt = 1 /\ p.total_msg_len = 1
  THEN [p |-> [p EXCEPT !.check_addr_ACK = FALSE, !.dcnt = p.dcnt - 1],
        ops |-> << ReadSR2, Op("CR2", {}, {"ITBUFEN"}), stm32_i2c_sendstop >>]
  ELSE IF p.dcnt = 2 /\ p.total_msg_len = 2
  THEN [p |-> [p EXCEPT !.check_addr_ACK = FALSE],
        ops |-> << ReadSR2, Op("CR1", {"ACK"}, {}) >>]
  ELSE [p |-> [p EXCEPT !.check_addr_ACK = FALSE],
        ops |-> << ReadSR2 >>]

\* A write completion that ends the last message without STOP
WriteNext_nostop(p, msgs) ==
  IF p.msgc = 0
  THEN [p |-> [p EXCEPT !.dcnt = p.dcnt - 1], ops |-> << >>]
  ELSE IF p.msgc > 0 /\ (msgs[p.msgv].flags = {}
                          \/ "READ" \in msgs[p.msgv].flags)
  THEN [p |-> [p EXCEPT !.dcnt = p.dcnt - 1],
        ops |-> << stm32_i2c_sendstart >>]
  ELSE IF p.msgc > 0 /\ "NORESTART" \in msgs[p.msgv].flags
  THEN [p |-> [p EXCEPT !.dcnt = -1], ops |-> << >>]
  ELSE [p |-> p, ops |-> << >>]

\* A write completion that puts a STOP in front of the repeated START
WriteNext_stopstart(p, msgs) ==
  IF p.msgc = 0
  THEN [p |-> [p EXCEPT !.dcnt = p.dcnt - 1],
        ops |-> << stm32_i2c_sendstop >>]
  ELSE IF p.msgc > 0 /\ (msgs[p.msgv].flags = {}
                          \/ "READ" \in msgs[p.msgv].flags)
  THEN [p |-> [p EXCEPT !.dcnt = p.dcnt - 1],
        ops |-> << stm32_i2c_sendstop, stm32_i2c_sendstart >>]
  ELSE IF p.msgc > 0 /\ "NORESTART" \in msgs[p.msgv].flags
  THEN [p |-> [p EXCEPT !.dcnt = -1], ops |-> << >>]
  ELSE [p |-> p, ops |-> << >>]

\* An end of a write message that lets the no-restart modifier of the next
\* message win over its read flag
WriteNext_norestart(p, msgs) ==
  IF p.msgc = 0
  THEN [p |-> [p EXCEPT !.dcnt = p.dcnt - 1],
        ops |-> << stm32_i2c_sendstop >>]
  ELSE IF p.msgc > 0 /\ "NORESTART" \in msgs[p.msgv].flags
  THEN [p |-> [p EXCEPT !.dcnt = -1], ops |-> << >>]
  ELSE IF p.msgc > 0 /\ (msgs[p.msgv].flags = {}
                          \/ "READ" \in msgs[p.msgv].flags)
  THEN [p |-> [p EXCEPT !.dcnt = p.dcnt - 1],
        ops |-> << stm32_i2c_sendstart >>]
  ELSE [p |-> p, ops |-> << >>]

\* An end of a write message that moves on to a next message whose flags
\* it does not recognize
WriteNext_skipflag(p, msgs) ==
  IF p.msgc = 0
  THEN [p |-> [p EXCEPT !.dcnt = p.dcnt - 1],
        ops |-> << stm32_i2c_sendstop >>]
  ELSE IF p.msgc > 0 /\ (msgs[p.msgv].flags = {}
                          \/ "READ" \in msgs[p.msgv].flags)
  THEN [p |-> [p EXCEPT !.dcnt = p.dcnt - 1],
        ops |-> << stm32_i2c_sendstart >>]
  ELSE [p |-> [p EXCEPT !.dcnt = -1], ops |-> << >>]

\* Write mode, after the last byte: decide from the next message
WriteNext(p, msgs) ==
  IF p.msgc = 0
  THEN [p |-> [p EXCEPT !.dcnt = p.dcnt - 1],
        ops |-> << stm32_i2c_sendstop >>]
  ELSE IF p.msgc > 0 /\ (msgs[p.msgv].flags = {}
                          \/ "READ" \in msgs[p.msgv].flags)
  THEN [p |-> [p EXCEPT !.dcnt = p.dcnt - 1],
        ops |-> << stm32_i2c_sendstart >>]
  ELSE IF p.msgc > 0 /\ "NORESTART" \in msgs[p.msgv].flags
  THEN [p |-> [p EXCEPT !.dcnt = -1], ops |-> << >>]
  ELSE [p |-> p, ops |-> << >>]

\* A write mode that sends one byte more than the message holds
WriteMode_onemore(p, msgs) ==
  LET q == [p EXCEPT !.check_addr_ACK = FALSE]
  IN  IF q.dcnt >= 0
      THEN [p |-> [q EXCEPT !.ptr = q.ptr + 1, !.dcnt = q.dcnt - 1],
            ops |-> << ReadSR2,
                       DataOp("DRW_DATA", q.cur,
                              BufByte(msgs[q.cur].length, q.cur, q.ptr + 1)) >>]
      ELSE [p |-> q, ops |-> << ReadSR2 >>]

\* Write mode: ADDR or TXE is set and the message is a write
WriteMode(p, msgs) ==
  LET q == [p EXCEPT !.check_addr_ACK = FALSE]
  IN  IF q.dcnt >= 1
      THEN [p |-> [q EXCEPT !.ptr = q.ptr + 1, !.dcnt = q.dcnt - 1],
            ops |-> << ReadSR2,
                       DataOp("DRW_DATA", q.cur,
                              BufByte(msgs[q.cur].length, q.cur, q.ptr + 1)) >>]
      ELSE IF q.dcnt = 0
      THEN LET r == WriteNext(q, msgs)
           IN  [p |-> r.p, ops |-> << ReadSR2 >> \o r.ops]
      ELSE [p |-> q, ops |-> << ReadSR2 >>]

\* One read of DR stored through priv->ptr (the k-th of an invocation)
ReadDR(p, k) == DataOp("DRR", p.cur, p.ptr + k)

\* Read mode, one-byte message: read the byte
ReadOneByte(p) ==
  [p |-> [p EXCEPT !.ptr = p.ptr + 1, !.dcnt = p.dcnt - 1],
   ops |-> << ReadDR(p, 1) >>]

\* A two-byte read that takes the first byte as soon as RXNE is set
ReadTwoBytes_rxne(p, btf) ==
  IF ~btf
  THEN [p |-> [p EXCEPT !.ptr = p.ptr + 1], ops |-> << ReadDR(p, 1) >>]
  ELSE [p |-> [p EXCEPT !.ptr = p.ptr + 2, !.dcnt = p.dcnt - 3],
        ops |-> << stm32_i2c_sendstop, ReadDR(p, 1), ReadDR(p, 2) >>]

\* Read mode, two-byte message: wait for BTF, then STOP and both bytes
ReadTwoBytes(p, btf) ==
  IF ~btf
  THEN [p |-> p, ops |-> << >>]
  ELSE [p |-> [p EXCEPT !.ptr = p.ptr + 2, !.dcnt = p.dcnt - 3],
        ops |-> << stm32_i2c_sendstop, ReadDR(p, 1), ReadDR(p, 2) >>]

\* Read mode error: abort the transfer
ReadError(p) == [p |-> [p EXCEPT !.dcnt = -1, !.msgc = 0], ops |-> << >>]

\* A read of three bytes or more that ends with a repeated START when
\* messages remain
ReadLong_restart(p, btf) ==
  IF ~btf
  THEN [p |-> p, ops |-> << >>]
  ELSE IF p.dcnt >= 4
  THEN [p |-> [p EXCEPT !.ptr = p.ptr + 1, !.dcnt = p.dcnt - 1],
        ops |-> << ReadDR(p, 1) >>]
  ELSE IF p.dcnt = 3
  THEN [p |-> [p EXCEPT !.ptr = p.ptr + 1, !.dcnt = p.dcnt - 1],
        ops |-> << Op("CR1", {"ACK"}, {}), ReadDR(p, 1) >>]
  ELSE IF p.dcnt = 2
  THEN [p |-> [p EXCEPT !.ptr = p.ptr + 2, !.dcnt = -1],
        ops |-> << IF p.msgc > 0 THEN stm32_i2c_sendstart
                   ELSE stm32_i2c_sendstop,
                   ReadDR(p, 1), ReadDR(p, 2) >>]
  ELSE [p |-> [p EXCEPT !.dcnt = -1, !.msgc = 0], ops |-> << >>]

\* Read mode, message of three bytes or more
ReadLong(p, btf) ==
  IF ~btf
  THEN [p |-> p, ops |-> << >>]
  ELSE IF p.dcnt >= 4
  THEN [p |-> [p EXCEPT !.ptr = p.ptr + 1, !.dcnt = p.dcnt - 1],
        ops |-> << ReadDR(p, 1) >>]
  ELSE IF p.dcnt = 3
  THEN [p |-> [p EXCEPT !.ptr = p.ptr + 1, !.dcnt = p.dcnt - 1],
        ops |-> << Op("CR1", {"ACK"}, {}), ReadDR(p, 1) >>]
  ELSE IF p.dcnt = 2
  THEN [p |-> [p EXCEPT !.ptr = p.ptr + 2, !.dcnt = -1],
        ops |-> << stm32_i2c_sendstop, ReadDR(p, 1), ReadDR(p, 2) >>]
  ELSE ReadError(p)

\* Read mode: RXNE is set and the message is a read
ReadMode(p, st) ==
  LET btf == "BTF" \in st
      r == IF p.dcnt = 0 /\ p.total_msg_len = 1 THEN ReadOneByte(p)
           ELSE IF p.dcnt = 2 /\ p.total_msg_len = 2 THEN ReadTwoBytes(p, btf)
           ELSE IF p.total_msg_len >= 3 THEN ReadLong(p, btf)
           ELSE ReadError(p)
  IN  [p |-> r.p, ops |-> r.ops \o << ReadSR2 >>]

\* An empty call that requests a STOP condition
EmptyCall_stop(p) == [p |-> p, ops |-> << ReadSR2, stm32_i2c_sendstop >>]

\* Empty call: between messages and no message left
EmptyCall(p) == [p |-> p, ops |-> << ReadSR2 >>]

\* An error handler that aborts the transfer in the polled build too
StateError_abort(p, polled) ==
  [p |-> [p EXCEPT !.dcnt = -1, !.msgc = 0], ops |-> << ReadSR2 >>]

\* Error handler: no recognized state
StateError(p, polled) ==
  IF polled
  THEN [p |-> p, ops |-> << >>]
  ELSE [p |-> [p EXCEPT !.dcnt = -1, !.msgc = 0], ops |-> << ReadSR2 >>]

\* An if-else chain that tests the write condition before the start bit
Branch_writefirst(p, st, polled) ==
  IF "READ" \notin p.flags /\ st \cap {"ADDR", "TXE"} # {} THEN "write"
  ELSE IF "SB" \in st THEN "addr"
  ELSE IF ~polled /\ "ADDR" \notin st /\ p.check_addr_ACK THEN "nack"
  ELSE IF "READ" \in p.flags /\ "ADDR" \in st /\ p.check_addr_ACK
       THEN "ack_read"
  ELSE IF "READ" \in p.flags /\ "RXNE" \in st THEN "read"
  ELSE IF p.dcnt = -1 /\ p.msgc = 0 THEN "empty"
  ELSE "error"

\* The branch of the if-else chain that an invocation takes
Branch(p, st, polled) ==
  IF "SB" \in st THEN "addr"
  ELSE IF ~polled /\ "ADDR" \notin st /\ p.check_addr_ACK THEN "nack"
  ELSE IF "READ" \in p.flags /\ "ADDR" \in st /\ p.check_addr_ACK
       THEN "ack_read"
  ELSE IF "READ" \notin p.flags /\ st \cap {"ADDR", "TXE"} # {} THEN "write"
  ELSE IF "READ" \in p.flags /\ "RXNE" \in st THEN "read"
  ELSE IF p.dcnt = -1 /\ p.msgc = 0 THEN "empty"
  ELSE "error"

\* I2C protocol logic: the if-else chain
Dispatch(p, st, msgs, polled) ==
  LET b == Branch(p, st, polled)
  IN  CASE b = "addr" -> AddrHandling(p, msgs)
        [] b = "nack" -> AddrNack(p)
        [] b = "ack_read" -> AddrAckRead(p)
        [] b = "write" -> WriteMode(p, msgs)
        [] b = "read" -> ReadMode(p, st)
        [] b = "empty" -> EmptyCall(p)
        [] OTHER -> StateError(p, polled)

\* A shutdown that signals completion as soon as no message remains,
\* whatever the byte counter
Shutdown_early(p, polled) ==
  IF p.msgc = 0
  THEN IF polled
       THEN [p |-> [p EXCEPT !.msgv = 0, !.intstate = INTSTATE_DONE],
             ops |-> << >>]
       ELSE IF p.intstate = INTSTATE_WAITING
       THEN [p |-> [p EXCEPT !.msgv = 0, !.intstate = INTSTATE_DONE],
             ops |-> << Op("CR2", I2C_CR2_ALLINTS, {}), Op("POST", {}, {}) >>]
       ELSE [p |-> [p EXCEPT !.msgv = 0],
             ops |-> << Op("CR2", I2C_CR2_ALLINTS, {}) >>]
  ELSE [p |-> p, ops |-> << >>]

\* A shutdown that signals completion whatever the handshake state
Shutdown_anystate(p, polled) ==
  IF p.dcnt = -1 /\ p.msgc = 0
  THEN IF polled
       THEN [p |-> [p EXCEPT !.msgv = 0, !.intstate = INTSTATE_DONE],
             ops |-> << >>]
       ELSE [p |-> [p EXCEPT !.msgv = 0, !.intstate = INTSTATE_DONE],
             ops |-> << Op("CR2", I2C_CR2_ALLINTS, {}), Op("POST", {}, {}) >>]
  ELSE [p |-> p, ops |-> << >>]

\* Messages handling (2/2): the whole chain is done, shut the ISR down
Shutdown(p, polled) ==
  IF p.dcnt = -1 /\ p.msgc = 0
  THEN IF polled
       THEN [p |-> [p EXCEPT !.msgv = 0, !.intstate = INTSTATE_DONE],
             ops |-> << >>]
       ELSE IF p.intstate = INTSTATE_WAITING
       THEN [p |-> [p EXCEPT !.msgv = 0, !.intstate = INTSTATE_DONE],
             ops |-> << Op("CR2", I2C_CR2_ALLINTS, {}), Op("POST", {}, {}) >>]
       ELSE [p |-> [p EXCEPT !.msgv = 0],
             ops |-> << Op("CR2", I2C_CR2_ALLINTS, {}) >>]
  ELSE [p |-> p, ops |-> << >>]

\* One invocation of the interrupt service routine
stm32_i2c_isr(p, st, msgs, polled) ==
  LET p1 == MsgAdvance([p EXCEPT !.status = st], msgs)
      d == Dispatch(p1, st, msgs, polled)
      s == Shutdown(d.p, polled)
  IN  [p |-> s.p, ops |-> d.ops \o s.ops]


\* ------------------------------------------------------------------------
\* State
\* ------------------------------------------------------------------------

VARIABLES
  polled,    \* build option CONFIG_I2C_POLLED
  fsmc,      \* build option I2C1_FSMC_CONFLICT
  priv,      \* struct stm32_i2c_priv_s of the controller
  sem_excl,  \* count of priv->sem_excl
  sem_isr,   \* count of priv->sem_isr
  cr1,       \* I2C_CR1 bits
  cr2,       \* I2C_CR2 interrupt enable bits
  sr1,       \* I2C_SR1 bits
  dr,        \* byte in the data register
  dev,       \* the peripheral's bus side (shift register, bus phase)
  target,    \* behaviour of the addressed device on this transaction
  pc,        \* where each caller thread is in the driver
  req,       \* msgs argument of the stm32_i2c_process call in progress
  rxbuf,     \* bytes stored through priv->ptr, per message
  elapsed,   \* ticks since the running wait loop read its start time
  ret,       \* return value of stm32_i2c_sem_waitdone
  errval,    \* errval of the stm32_i2c_process call in progress
  ops,       \* history: data bytes and START/STOP requests of the engine
  abyte,     \* history: address byte last written for each message
  loaded,    \* history: messages loaded by the engine, in order
  last,      \* history: register accesses of the latest engine invocation
  stateerr,  \* history: the engine's error handler aborted this transfer
  now,       \* CONFIG_STM32_I2C_DYNTIMEO: time that clock_gettime returns
  abstime,   \* CONFIG_STM32_I2C_DYNTIMEO: abstime of stm32_i2c_sem_waitdone
  timeout,   \* CONFIG_STM32_I2C_DYNTIMEO: timeout of stm32_i2c_sem_waitdone
  duty,      \* build option CONFIG_STM32_I2C_DUTY16_9
  pclk1,     \* STM32_PCLK1_FREQUENCY of the board
  frequency, \* inst->frequency
  ccr,       \* I2C_CCR, 16 bits
  trise,     \* I2C_TRISE, 16 bits
  oar1,      \* I2C_OAR1, 16 bits
  tndx,      \* CONFIG_I2C_TRACE: priv->tndx
  trace      \* CONFIG_I2C_TRACE: priv->trace

vars ==
  << polled, fsmc, priv, sem_excl, sem_isr, cr1, cr2, sr1, dr, dev, target, pc,
     req, rxbuf, elapsed, ret, errval, ops, abyte, loaded, last, stateerr,
     now, abstime, timeout, duty, pclk1, frequency, ccr, trise, oar1, tndx,
     trace >>

Threads == 1 .. NThreads

\* ------------------------------------------------------------------------
\* stm32_i2c_setclock

\* Bits of I2C_CCR and I2C_OAR1 (chip/stm32_i2c.h): the divider field, the
\* duty and fast-mode bits, and the bit of OAR1 that software keeps at 1
I2C_CCR_CCR_MASK == 4095
I2C_CCR_DUTY == 16384
I2C_CCR_FS == 32768
I2C_OAR1_ONE == 16384

\* STM32_PCLK1_FREQUENCY of the boards considered: the least clock that
\* up_i2cinitialize accepts, the least for 400 kHz operation, and the APB1
\* clock of an STM32F4 at 168 MHz
PCLK1_42MHZ == 42000000
Pclks == {2000000, 4000000, PCLK1_42MHZ}

\* Frequencies that a caller sets: the ends of the range, the two sides
\* of the 100 kHz threshold, and values around which the standard mode
\* quotient crosses 12, 15 and 16 bits for the clocks above
MaxFrequency == 400000
Frequencies ==
  {1, 15, 16, 30, 31, 320, 500, 641, 5127, 5128, 10000, 100000, 100001,
   MaxFrequency}

Uint16(n) == n % 65536

\* a | b on 16-bit values
RECURSIVE BitOr(_, _)
BitOr(a, b) ==
  IF a = 0 THEN b
  ELSE IF b = 0 THEN a
  ELSE (IF a % 2 = 1 \/ b % 2 = 1 THEN 1 ELSE 0) + 2 * BitOr(a \div 2, b \div 2)

\* Bit b (a power of two) is set in the 16-bit value v
BitSet(v, b) == (v \div b) % 2 = 1

\* stm32_i2c_setclock(priv, f) with STM32_PCLK1_FREQUENCY = P, with (d) or
\* without CONFIG_STM32_I2C_DUTY16_9, when CR1 holds c1: the values it
\* writes to CCR, TRISE and OAR1, and the value that it leaves in CR1 (it
\* writes CR1 without PE, then the value it read).  The uint32_t products
\* f << 1, f * 3 and f * 25 do not wrap for f up to MaxFrequency
stm32_i2c_setclock(c1, P, d, f) ==
  LET freqmhz == Uint16(P \div 1000000)
      standard == f <= 100000
      quotient == IF standard THEN Uint16(P \div (f * 2))
                  ELSE IF d THEN Uint16(P \div (f * 25))
                  ELSE Uint16(P \div (f * 3))
      least == IF standard THEN 4 ELSE 1
      speed == IF quotient < least THEN least ELSE quotient
      mode == IF standard THEN 0
              ELSE IF d THEN BitOr(I2C_CCR_DUTY, I2C_CCR_FS)
              ELSE I2C_CCR_FS
      cr1writes == << c1 \ {"PE"}, c1 >>
  IN  [ccr |-> BitOr(mode, speed),
       trise |-> IF standard THEN Uint16(freqmhz + 1)
                 ELSE Uint16(((freqmhz * 300) \div 1000) + 1),
       oar1 |-> I2C_OAR1_ONE,
       cr1 |-> cr1writes[Len(cr1writes)]]

\* ------------------------------------------------------------------------
\* The tracer (CONFIG_I2C_TRACE)

\* Entries of priv->trace
CONFIG_I2C_NTRACE == 3

\* Greatest count that an entry of the trace reaches here
MaxCount == 2

I2CEVENT_NONE == 0
I2CEVENT_POLL_DEV_NOT_RDY == 1004
I2CEVENT_ISR_CALL == 1111

\* Arguments of the tracer calls
TraceStatuses == { {}, {"SB"} }
TraceEvents == {I2CEVENT_NONE, I2CEVENT_POLL_DEV_NOT_RDY, I2CEVENT_ISR_CALL}
TraceParms == {0, 1}

\* stm32_i2c_traceclear: the cleared entry (status 0 is the empty set of
\* bits; the time stamps are left out)
TraceClear ==
  [status |-> {}, count |-> 0, event |-> I2CEVENT_NONE, parm |-> 0]

\* ------------------------------------------------------------------------

\* struct stm32_i2c_priv_s as statically initialized (stm32_i2c1_priv);
\* msgv = 0 and cur = 0 are NULL
PrivInit ==
  [intstate |-> INTSTATE_IDLE, msgc |-> 0, msgv |-> 0, cur |-> 0, ptr |-> 0,
   dcnt |-> 0, flags |-> {}, check_addr_ACK |-> FALSE, total_msg_len |-> 0,
   status |-> {}]

\* The peripheral's bus side: bus phase ("idle", "sb" start sent, "addr"
\* address sent, "tx", "rx", "af" address not acknowledged), direction of
\* the addressed transfer, bytes received so far, byte waiting in the shift
\* register (0: none), whether the last received byte was NACKed, and the
\* transmit path (0: DR and shift register empty, 1: shift register busy,
\* 2: DR full, 3: both full)
DevInit ==
  [bus |-> "idle", rd |-> FALSE, rxn |-> 0, shift |-> 0, nacked |-> FALSE,
   tx |-> 0]

\* Byte number k sent by an acknowledging target
RxByte(k) == 64 + k

\* ------------------------------------------------------------------------
\* Effect of the driver's register accesses on the controller
\* ------------------------------------------------------------------------

\* A store through priv->ptr at offset k (1-based) of a buffer
StoreAt(buf, k, v) ==
  [j \in 1 .. (IF k > Len(buf) THEN k ELSE Len(buf)) |->
     IF j = k THEN v ELSE IF j <= Len(buf) THEN buf[j] ELSE 0]

\* One register access o applied to h = [cr1, cr2, sr1, dr, dev, rxbuf,
\* sem_isr, ops, abyte]
ApplyOp(h, o) ==
  CASE o.op = "CR1" ->
         [h EXCEPT !.cr1 = (h.cr1 \ o.clr) \cup o.set,
                   !.ops = IF o.set \cap {"START", "STOP"} # {}
                           THEN Append(h.ops, o) ELSE h.ops]
    [] o.op = "CR2" ->
         [h EXCEPT !.cr2 = (h.cr2 \ o.clr) \cup o.set]
    [] o.op = "DRW_ADDR" ->
         \* SR1 read followed by a DR write clears SB; the address goes out
         [h EXCEPT !.dr = o.val,
                   !.sr1 = h.sr1 \ {"SB"},
                   !.dev = IF h.dev.bus = "sb"
                           THEN [h.dev EXCEPT !.bus = "addr",
                                              !.rd = (o.val % 2 = 1)]
                           ELSE h.dev,
                   !.abyte = [h.abyte EXCEPT ![o.idx] = o.val]]
    [] o.op = "DRW_DATA" ->
         \* a DR write clears TXE and BTF
         [h EXCEPT !.dr = o.val,
                   !.sr1 = h.sr1 \ {"TXE", "BTF"},
                   !.dev = IF h.dev.bus = "tx"
                           THEN [h.dev EXCEPT !.tx = IF h.dev.tx \in {1, 3}
                                                     THEN 3 ELSE 2]
                           ELSE h.dev,
                   !.ops = Append(h.ops, o)]
    [] o.op = "DRR" ->
         \* a DR read clears RXNE, or with BTF set moves the shift register
         \* into DR
         [h EXCEPT !.rxbuf = [h.rxbuf EXCEPT ![o.idx] =
                                 StoreAt(h.rxbuf[o.idx], o.val, h.dr)],
                   !.dr = IF "BTF" \in h.sr1 THEN h.dev.shift ELSE h.dr,
                   !.dev = IF "BTF" \in h.sr1
                           THEN [h.dev EXCEPT !.shift = 0]
                           ELSE h.dev,
                   !.sr1 = IF "BTF" \in h.sr1
                           THEN h.sr1 \ {"BTF"}
                           ELSE h.sr1 \ {"RXNE"},
                   !.ops = Append(h.ops, DataOp("DRR", o.idx, h.dr))]
    [] o.op = "SR2" ->
         \* SR1 read followed by an SR2 read clears ADDR
         IF "ADDR" \in h.sr1
         THEN [h EXCEPT !.sr1 = (h.sr1 \ {"ADDR"})
                                \cup (IF h.dev.bus = "addr" /\ ~h.dev.rd
                                      THEN {"TXE"} ELSE {}),
                        !.dev = IF h.dev.bus = "addr"
                                THEN [h.dev EXCEPT
                                        !.bus = IF h.dev.rd THEN "rx"
                                                ELSE "tx"]
                                ELSE h.dev]
         ELSE h
    [] o.op = "POST" ->
         [h EXCEPT !.sem_isr = h.sem_isr + 1]
    [] OTHER -> h

RECURSIVE ApplyOps(_, _)
ApplyOps(h, os) ==
  IF os = << >> THEN h ELSE ApplyOps(ApplyOp(h, Head(os)), Tail(os))

\* The interrupt sources: event (ITEVFEN), buffer (ITBUFEN), error (ITERREN)
IrqPending(st, c2) ==
  \/ "ITEVFEN" \in c2 /\ st \cap {"SB", "ADDR", "BTF"} # {}
  \/ "ITEVFEN" \in c2 /\ "ITBUFEN" \in c2 /\ st \cap {"TXE", "RXNE"} # {}
  \/ "ITERREN" \in c2 /\ st \cap I2C_SR1_ERRORMASK # {}


\* ------------------------------------------------------------------------
\* Initial state: the controller registered, no transfer in progress
\* ------------------------------------------------------------------------

Init ==
  /\ polled \in BOOLEAN
  /\ fsmc \in BOOLEAN
  /\ priv = PrivInit
  /\ sem_excl = 1
  /\ sem_isr = 0
  /\ cr1 = {"PE"}
  /\ cr2 = {}
  /\ sr1 = {}
  /\ dr = 0
  /\ dev = DevInit
  /\ target = "any"
  /\ pc = [t \in Threads |-> "idle"]
  /\ req = << >>
  /\ rxbuf = << >>
  /\ elapsed = 0
  /\ ret = "OK"
  /\ errval = "OK"
  /\ ops = << >>
  /\ abyte = << >>
  /\ loaded = << >>
  /\ last = << >>
  /\ stateerr = FALSE
  /\ now = TimeZero
  /\ abstime = TimeZero
  /\ timeout = 0
  /\ duty = FALSE
  /\ pclk1 = PCLK1_42MHZ
  /\ frequency = 100000
  /\ ccr = stm32_i2c_setclock({}, pclk1, duty, 100000).ccr
  /\ trise = stm32_i2c_setclock({}, pclk1, duty, 100000).trise
  /\ oar1 = I2C_OAR1_ONE
  /\ tndx = 0
  /\ trace = [i \in 0 .. CONFIG_I2C_NTRACE - 1 |-> TraceClear]

\* A thread is about to call stm32_i2c_sem_waitdone in a build with
\* CONFIG_STM32_I2C_DYNTIMEO: stm32_i2c_process has taken the lock and
\* set the session up for the request, and the clock shows some time
DynTimeoInit ==
  /\ polled \in BOOLEAN
  /\ fsmc \in BOOLEAN
  /\ req \in BigRequests
  /\ now \in Clocks
  /\ priv = [PrivInit EXCEPT !.msgv = 1, !.msgc = Uint8(Len(req)),
                             !.dcnt = -1]
  /\ sem_excl = 0
  /\ sem_isr = 0
  /\ cr1 = {"PE", "START"}
  /\ cr2 = {}
  /\ sr1 = {}
  /\ dr = 0
  /\ dev = DevInit
  /\ target = "any"
  /\ pc = [t \in Threads |-> IF t = 1 THEN "arm" ELSE "idle"]
  /\ rxbuf = [i \in 1 .. Len(req) |-> << >>]
  /\ elapsed = 0
  /\ ret = "OK"
  /\ errval = "OK"
  /\ ops = << >>
  /\ abyte = [i \in 1 .. Len(req) |-> -1]
  /\ loaded = << >>
  /\ last = << >>
  /\ stateerr = FALSE
  /\ abstime = TimeZero
  /\ timeout = 0
  /\ duty = FALSE
  /\ pclk1 = PCLK1_42MHZ
  /\ frequency = 100000
  /\ ccr = stm32_i2c_setclock({}, pclk1, duty, 100000).ccr
  /\ trise = stm32_i2c_setclock({}, pclk1, duty, 100000).trise
  /\ oar1 = I2C_OAR1_ONE
  /\ tndx = 0
  /\ trace = [i \in 0 .. CONFIG_I2C_NTRACE - 1 |-> TraceClear]

\* ------------------------------------------------------------------------
\* The caller's side: stm32_i2c_transfer / stm32_i2c_process
\* ------------------------------------------------------------------------

\* modifyreg on a register value
Mod(reg, o) == (reg \ o.clr) \cup o.set

\* A semaphore wait that never blocks
SemTake_free(count) == count > 0 \/ count = 0

\* sem_wait(&priv->sem_excl) succeeds when the count is positive
SemTake(count) == count > 0

\* A lock acquisition after which the call never waits for a pending STOP
stm32_i2c_sem_wait_nowait(t) ==
  /\ pc[t] = "idle"
  /\ SemTake(sem_excl)
  /\ sem_excl' = sem_excl - 1
  /\ pc' = [pc EXCEPT ![t] = "setup"]
  /\ UNCHANGED << polled, fsmc, duty, pclk1, frequency, ccr, trise, oar1, tndx,
                  trace, now, abstime, timeout, priv, sem_isr, cr1, cr2, sr1, dr, dev >>

\* stm32_i2c_sem_wait at the entry of stm32_i2c_process: the thread blocks
\* until it can take sem_excl.  stm32_i2c_process then waits for a STOP in
\* progress, or with I2C1_FSMC_CONFLICT disables the FSMC instead
stm32_i2c_sem_wait(t) ==
  /\ pc[t] = "idle"
  /\ SemTake(sem_excl)
  /\ sem_excl' = sem_excl - 1
  /\ pc' = [pc EXCEPT ![t] = IF fsmc THEN "setup" ELSE "waitstop"]
  /\ UNCHANGED << polled, fsmc, duty, pclk1, frequency, ccr, trise, oar1, tndx,
                  trace, now, abstime, timeout, priv, sem_isr, cr1, cr2, sr1, dr, dev >>

\* The arguments of the stm32_i2c_process call that starts: the message
\* array m, addressed to a device behaving as tg; the histories start anew
ProcessArgs(m, tg) ==
  /\ req' = m
  /\ target' = tg
  /\ rxbuf' = [i \in 1 .. Len(m) |-> << >>]
  /\ abyte' = [i \in 1 .. Len(m) |-> -1]
  /\ elapsed' = 0
  /\ ret' = "OK"
  /\ errval' = "OK"
  /\ ops' = << >>
  /\ loaded' = << >>
  /\ last' = << >>
  /\ stateerr' = FALSE

\* stm32_i2c_transfer: the generic transfer of a message array
stm32_i2c_transfer(t) ==
  /\ stm32_i2c_sem_wait(t)
  /\ \E m \in Requests, tg \in {"ack", "nack"} : ProcessArgs(m, tg)

\* stm32_i2c_transfer of a short request, with nothing said about the target
TransferShort(t) ==
  /\ stm32_i2c_sem_wait(t)
  /\ \E m \in ShortRequests : ProcessArgs(m, "any")

\* stm32_i2c_write: one write message of buflen bytes to the instance's
\* (seven-bit) address
stm32_i2c_write(t) ==
  /\ stm32_i2c_sem_wait(t)
  /\ \E buflen \in 0 .. MaxLen :
        ProcessArgs(<< [addr |-> AddrOf(1), flags |-> {},
                       length |-> buflen] >>, "any")

\* stm32_i2c_read: one read message of buflen bytes
stm32_i2c_read(t) ==
  /\ stm32_i2c_sem_wait(t)
  /\ \E buflen \in 0 .. MaxLen :
        ProcessArgs(<< [addr |-> AddrOf(1), flags |-> {"READ"},
                       length |-> buflen] >>, "any")

\* An exit test of the loop that never gives up
WaitStopExit_notimeout(c1, s1) ==
  \/ "STOP" \notin c1
  \/ "TIMEOUT" \in s1

\* Exit test of the stm32_i2c_sem_waitstop loop on the CR1 and SR1 values
\* it reads: STOP is clear, or the TIMEOUT error bit is set, or the timeout
\* has elapsed
WaitStopExit(c1, s1) ==
  \/ "STOP" \notin c1
  \/ "TIMEOUT" \in s1
  \/ elapsed >= TimeoutTicks

\* stm32_i2c_sem_waitstop returns: to the setup of the transfer, or with
\* I2C1_FSMC_CONFLICT (where it is called after the transfer) to the release
stm32_i2c_sem_waitstop(t) ==
  /\ pc[t] \in {"waitstop", "waitstop2"}
  /\ WaitStopExit(cr1, sr1)
  /\ pc' = [pc EXCEPT ![t] = IF pc[t] = "waitstop" THEN "setup" ELSE "release"]
  /\ UNCHANGED << polled, fsmc, duty, pclk1, frequency, ccr, trise, oar1, tndx,
                  trace, now, abstime, timeout, priv, sem_excl, sem_isr, cr1, cr2, sr1, dr, dev,
                  target, req, rxbuf, elapsed, ret, errval, ops, abyte,
                  loaded, last, stateerr >>

\* stm32_i2c_process from the SR1 clear to stm32_i2c_sendstart
ProcessSetup(t) ==
  /\ pc[t] = "setup"
  /\ sr1' = sr1 \ I2C_SR1_ERRORMASK
  /\ LET c == stm32_i2c_setclock(Mod(cr1, stm32_i2c_clrstart), pclk1, duty,
                                 frequency)
     IN  /\ cr1' = Mod(c.cr1, stm32_i2c_sendstart)
         /\ ccr' = c.ccr
         /\ trise' = c.trise
         /\ oar1' = c.oar1
  /\ priv' = [priv EXCEPT !.msgv = 1,
                          !.msgc = Uint8(Len(req)),
                          !.dcnt = -1,
                          !.status = {}]
  /\ pc' = [pc EXCEPT ![t] = "arm"]
  /\ UNCHANGED << polled, fsmc, duty, pclk1, frequency, tndx,
                  trace, now, abstime, timeout, sem_excl, sem_isr, cr2, dr, dev, target, req,
                  rxbuf, elapsed, ret, errval, ops, abyte, loaded, last, stateerr >>

\* stm32_i2c_sem_waitdone up to the wait: enable the interrupts (interrupt
\* build) and signal the handler that a thread is waiting
WaitDoneArm(t) ==
  /\ pc[t] = "arm"
  /\ cr2' = IF polled THEN cr2 ELSE cr2 \cup {"ITERREN", "ITEVFEN"}
  /\ priv' = [priv EXCEPT !.intstate = INTSTATE_WAITING]
  /\ elapsed' = 0
  /\ pc' = [pc EXCEPT ![t] = "wait"]
  /\ UNCHANGED << polled, fsmc, duty, pclk1, frequency, ccr, trise, oar1, tndx,
                  trace, now, abstime, timeout, sem_excl, sem_isr, cr1, sr1, dr, dev, target, req,
                  rxbuf, ret, errval, ops, abyte, loaded, last, stateerr >>

\* stm32_i2c_sem_waitdone up to the wait in a build with
\* CONFIG_STM32_I2C_DYNTIMEO: the polled build computes the tick threshold
\* of its loop, the interrupt build the deadline of sem_timedwait
DynTimeoArm(t) ==
  /\ pc[t] = "arm"
  /\ cr2' = IF polled THEN cr2 ELSE cr2 \cup {"ITERREN", "ITEVFEN"}
  /\ priv' = [priv EXCEPT !.intstate = INTSTATE_WAITING]
  /\ elapsed' = 0
  /\ timeout' = IF polled
                THEN USEC2TICK(stm32_i2c_tousecs(priv.msgc, req, priv.msgv))
                ELSE timeout
  /\ abstime' = IF polled THEN abstime
                ELSE Deadline(now, stm32_i2c_tousecs(priv.msgc, req, priv.msgv))
  /\ pc' = [pc EXCEPT ![t] = "wait"]
  /\ UNCHANGED << polled, fsmc, duty, pclk1, frequency, ccr, trise, oar1, tndx,
                  trace, now, sem_excl, sem_isr, cr1, sr1, dr, dev,
                  target, req, rxbuf, ret, errval, ops, abyte, loaded, last,
                  stateerr >>

DynTimeoNext == DynTimeoArm(1)

DynTimeoSpec == DynTimeoInit /\ [][DynTimeoNext]_vars

\* One engine invocation that reads st from SR1; q is the session state
\* the invocation leaves after the caller's own assignments
IsrRun(st) ==
  LET r == stm32_i2c_isr(priv, st, req, polled)
      a == MsgAdvance(priv, req)
      e == ~polled /\ Branch(a, st, polled) = "error"
      h == ApplyOps([cr1 |-> cr1, cr2 |-> cr2, sr1 |-> st, dr |-> dr,
                     dev |-> dev, rxbuf |-> rxbuf, sem_isr |-> sem_isr,
                     ops |-> ops, abyte |-> abyte], r.ops)
  IN  [p |-> r.p, h |-> h, last |-> r.ops, stateerr |-> stateerr \/ e,
       loaded |-> IF a # priv THEN Append(loaded, a.cur) ELSE loaded]

IsrApply(x) ==
  /\ cr1' = x.h.cr1
  /\ cr2' = x.h.cr2
  /\ sr1' = x.h.sr1
  /\ dr' = x.h.dr
  /\ dev' = x.h.dev
  /\ rxbuf' = x.h.rxbuf
  /\ sem_isr' = x.h.sem_isr
  /\ ops' = x.h.ops
  /\ abyte' = x.h.abyte
  /\ loaded' = x.loaded
  /\ last' = x.last
  /\ stateerr' = x.stateerr

\* The interrupt handler stm32_i2c1_isr runs (interrupt build): an enabled
\* interrupt source is pending with SR1 = st
Isr(st) ==
  /\ ~polled
  /\ IrqPending(st, cr2)
  /\ LET x == IsrRun(st)
     IN  priv' = x.p /\ IsrApply(x)
  /\ UNCHANGED << polled, fsmc, duty, pclk1, frequency, ccr, trise, oar1, tndx,
                  trace, now, abstime, timeout, sem_excl, target, pc, req, elapsed, ret, errval >>

\* The session is in the state in which the engine signals completion
Terminated(p) == p.dcnt = -1 /\ p.msgc = 0

\* A further invocation of the engine after it has terminated the
\* transfer: in the interrupt build the event and the error interrupt are
\* two vectors attached to the same handler, and one that was pending when
\* the other's invocation disabled the interrupts in CR2 still runs
IsrAgain(st) ==
  /\ Terminated(priv)
  /\ priv.intstate \in {INTSTATE_DONE, INTSTATE_IDLE}
  /\ LET x == IsrRun(st)
     IN  priv' = x.p /\ IsrApply(x)
  /\ UNCHANGED << polled, fsmc, duty, pclk1, frequency, ccr, trise, oar1, tndx,
                  trace, now, abstime, timeout, sem_excl, target, pc, req, elapsed, ret, errval >>

\* A polled wait loop without the elapsed-time test
PollExit_notimeout(p) == ~(p.intstate # INTSTATE_DONE)

\* Exit test of the polled wait loop
PollExit(p) == ~(p.intstate # INTSTATE_DONE /\ elapsed < TimeoutTicks)

\* A polled wait that reports a timeout whenever the time has elapsed,
\* whatever the engine has reached
Poll_timeoutwins(t, st) ==
  /\ polled
  /\ pc[t] = "wait"
  /\ LET x == IsrRun(st)
     IN  /\ IsrApply(x)
         /\ IF PollExit(x.p)
            THEN /\ ret' = IF elapsed < TimeoutTicks THEN "OK" ELSE "ETIMEDOUT"
                 /\ priv' = [x.p EXCEPT !.intstate = INTSTATE_IDLE]
                 /\ pc' = [pc EXCEPT ![t] = "post"]
            ELSE /\ priv' = x.p
                 /\ UNCHANGED << ret, pc >>
  /\ UNCHANGED << polled, fsmc, duty, pclk1, frequency, ccr, trise, oar1, tndx,
                  trace, now, abstime, timeout, sem_excl, target, req, elapsed, errval >>

\* stm32_i2c_sem_waitdone, polled build: one iteration of the do-while
\* loop, and the return when the loop ends
Poll(t, st) ==
  /\ polled
  /\ pc[t] = "wait"
  /\ LET x == IsrRun(st)
     IN  /\ IsrApply(x)
         /\ IF PollExit(x.p)
            THEN /\ ret' = IF x.p.intstate = INTSTATE_DONE
                           THEN "OK" ELSE "ETIMEDOUT"
                 /\ priv' = [x.p EXCEPT !.intstate = INTSTATE_IDLE]
                 /\ pc' = [pc EXCEPT ![t] = "post"]
            ELSE /\ priv' = x.p
                 /\ UNCHANGED << ret, pc >>
  /\ UNCHANGED << polled, fsmc, duty, pclk1, frequency, ccr, trise, oar1, tndx,
                  trace, now, abstime, timeout, sem_excl, target, req, elapsed, errval >>

\* A wait that returns on the first post, whatever the handshake state
WaitDoneWake_once(t) ==
  /\ ~polled
  /\ pc[t] = "wait"
  /\ sem_isr > 0
  /\ sem_isr' = sem_isr - 1
  /\ ret' = "OK"
  /\ priv' = [priv EXCEPT !.intstate = INTSTATE_IDLE]
  /\ cr2' = cr2 \ I2C_CR2_ALLINTS
  /\ pc' = [pc EXCEPT ![t] = "post"]
  /\ UNCHANGED << polled, fsmc, duty, pclk1, frequency, ccr, trise, oar1, tndx,
                  trace, now, abstime, timeout, sem_excl, cr1, sr1, dr, dev,
                  target, req, rxbuf, elapsed, errval, ops, abyte, loaded,
                  last, stateerr >>

\* stm32_i2c_sem_waitdone, interrupt build: sem_timedwait takes a post of
\* sem_isr; the loop ends when the handler has set DONE
WaitDoneWake(t) ==
  /\ ~polled
  /\ pc[t] = "wait"
  /\ sem_isr > 0
  /\ sem_isr' = sem_isr - 1
  /\ ret' = "OK"
  /\ IF priv.intstate # INTSTATE_DONE
     THEN UNCHANGED << priv, cr2, pc >>
     ELSE /\ priv' = [priv EXCEPT !.intstate = INTSTATE_IDLE]
          /\ cr2' = cr2 \ I2C_CR2_ALLINTS
          /\ pc' = [pc EXCEPT ![t] = "post"]
  /\ UNCHANGED << polled, fsmc, duty, pclk1, frequency, ccr, trise, oar1, tndx,
                  trace, now, abstime, timeout, sem_excl, cr1, sr1, dr, dev, target, req, rxbuf,
                  elapsed, errval, ops, abyte, loaded, last, stateerr >>

\* The timeout of sem_timedwait expires while the thread sleeps: the
\* thread is made ready with ETIMEDOUT; interrupts stay enabled until it runs
WaitDoneExpire(t) ==
  /\ ~polled
  /\ pc[t] = "wait"
  /\ sem_isr = 0
  /\ elapsed >= TimeoutTicks
  /\ pc' = [pc EXCEPT ![t] = "expired"]
  /\ UNCHANGED << polled, fsmc, duty, pclk1, frequency, ccr, trise, oar1, tndx,
                  trace, now, abstime, timeout, priv, sem_excl, sem_isr, cr1, cr2, sr1, dr, dev,
                  target, req, rxbuf, elapsed, ret, errval, ops, abyte,
                  loaded, last, stateerr >>

\* A failed wait that returns without resetting the handshake state
WaitDoneTimeout_keepstate(t) ==
  /\ ~polled
  /\ pc[t] = "expired"
  /\ ret' = "ERROR"
  /\ cr2' = cr2 \ I2C_CR2_ALLINTS
  /\ pc' = [pc EXCEPT ![t] = "post"]
  /\ UNCHANGED << polled, fsmc, duty, pclk1, frequency, ccr, trise, oar1, tndx,
                  trace, now, abstime, timeout, priv, sem_excl, sem_isr, cr1, sr1, dr, dev,
                  target, req, rxbuf, elapsed, errval, ops, abyte, loaded,
                  last, stateerr >>

\* A failed wait that returns with the interrupts still enabled
WaitDoneTimeout_keepints(t) ==
  /\ ~polled
  /\ pc[t] = "expired"
  /\ ret' = "ERROR"
  /\ priv' = [priv EXCEPT !.intstate = INTSTATE_IDLE]
  /\ pc' = [pc EXCEPT ![t] = "post"]
  /\ UNCHANGED << polled, fsmc, duty, pclk1, frequency, ccr, trise, oar1, tndx,
                  trace, now, abstime, timeout, sem_excl, sem_isr, cr1, cr2, sr1,
                  dr, dev, target, req, rxbuf, elapsed, errval, ops, abyte,
                  loaded, last, stateerr >>

\* sem_timedwait has returned an error: break out of the loop, set the
\* state back to IDLE, disable the interrupts
WaitDoneTimeout(t) ==
  /\ ~polled
  /\ pc[t] = "expired"
  /\ ret' = "ERROR"
  /\ priv' = [priv EXCEPT !.intstate = INTSTATE_IDLE]
  /\ cr2' = cr2 \ I2C_CR2_ALLINTS
  /\ pc' = [pc EXCEPT ![t] = "post"]
  /\ UNCHANGED << polled, fsmc, duty, pclk1, frequency, ccr, trise, oar1, tndx,
                  trace, now, abstime, timeout, sem_excl, sem_isr, cr1, sr1, dr, dev, target, req,
                  rxbuf, elapsed, errval, ops, abyte, loaded, last, stateerr >>

\* A classification that gives overrun a code of its own
Classify_ovr(st, e) ==
  IF st.sr1 \cap I2C_SR1_ERRORMASK # {}
  THEN IF "BERR" \in st.sr1 THEN "EIO"
       ELSE IF "ARLO" \in st.sr1 THEN "EAGAIN"
       ELSE IF "AF" \in st.sr1 THEN "ENXIO"
       ELSE IF "OVR" \in st.sr1 THEN "EOVERFLOW"
       ELSE IF "PECERR" \in st.sr1 THEN "EPROTO"
       ELSE IF "TIMEOUT" \in st.sr1 THEN "ETIME"
       ELSE "EINTR"
  ELSE IF "BUSY" \in st.sr2 THEN "EBUSY"
  ELSE e

\* A classification in which the wait timeout hides the error bits
Classify_timeoutfirst(st, e) ==
  IF e = "ETIMEDOUT" THEN e
  ELSE IF st.sr1 \cap I2C_SR1_ERRORMASK # {}
  THEN IF "BERR" \in st.sr1 THEN "EIO"
       ELSE IF "ARLO" \in st.sr1 THEN "EAGAIN"
       ELSE IF "AF" \in st.sr1 THEN "ENXIO"
       ELSE IF "OVR" \in st.sr1 THEN "EIO"
       ELSE IF "PECERR" \in st.sr1 THEN "EPROTO"
       ELSE IF "TIMEOUT" \in st.sr1 THEN "ETIME"
       ELSE "EINTR"
  ELSE IF "BUSY" \in st.sr2 THEN "EBUSY"
  ELSE e

\* Error classification of stm32_i2c_process: st is the local status
\* ([sr1, sr2]), e the errval so far
Classify(st, e) ==
  IF st.sr1 \cap I2C_SR1_ERRORMASK # {}
  THEN IF "BERR" \in st.sr1 THEN "EIO"
       ELSE IF "ARLO" \in st.sr1 THEN "EAGAIN"
       ELSE IF "AF" \in st.sr1 THEN "ENXIO"
       ELSE IF "OVR" \in st.sr1 THEN "EIO"
       ELSE IF "PECERR" \in st.sr1 THEN "EPROTO"
       ELSE IF "TIMEOUT" \in st.sr1 THEN "ETIME"
       ELSE "EINTR"
  ELSE IF "BUSY" \in st.sr2 THEN "EBUSY"
  ELSE e

\* A recovery that requests STOP before it clears the request bits
TimeoutRecovery_stopfirst(c1) ==
  IF polled
  THEN Mod(Mod(c1, stm32_i2c_sendstop), stm32_i2c_clrstart)
  ELSE Mod(c1, stm32_i2c_clrstart)

\* The CR1 requests stm32_i2c_process makes after a failed wait
TimeoutRecovery(c1) ==
  IF polled
  THEN Mod(Mod(c1, stm32_i2c_clrstart), stm32_i2c_sendstop)
  ELSE Mod(c1, stm32_i2c_clrstart)

\* SR2 as the hardware presents it: BUSY from the START condition until the
\* STOP condition
SR2 == IF dev.bus # "idle" THEN {"BUSY"} ELSE {}

\* stm32_i2c_getstatus: SR1 in the low half, SR2 in the high half
stm32_i2c_getstatus(s1, s2) == [sr1 |-> s1, sr2 |-> s2]

\* The local status after the wait: priv->status & 0xffff on both paths,
\* which replaces the value fetched with stm32_i2c_getstatus after a failed
\* wait; priv->status holds the SR1 value the engine read last
FinalStatus(p, fetched) == [sr1 |-> p.status, sr2 |-> {}]

\* The controller after the SR1 and SR2 reads of stm32_i2c_getstatus
AfterGetStatus ==
  ApplyOp([cr1 |-> cr1, cr2 |-> cr2, sr1 |-> sr1, dr |-> dr, dev |-> dev,
           rxbuf |-> rxbuf, sem_isr |-> sem_isr, ops |-> ops,
           abyte |-> abyte], ReadSR2)

\* stm32_i2c_process after stm32_i2c_sem_waitdone: timeout recovery and
\* error classification
ProcessPost(t) ==
  /\ pc[t] = "post"
  /\ cr1' = IF ret # "OK" THEN TimeoutRecovery(cr1) ELSE cr1
  /\ sr1' = IF ret # "OK" THEN AfterGetStatus.sr1 ELSE sr1
  /\ dev' = IF ret # "OK" THEN AfterGetStatus.dev ELSE dev
  /\ errval' = Classify(FinalStatus(priv, stm32_i2c_getstatus(sr1, SR2)),
                        IF ret # "OK" THEN "ETIMEDOUT" ELSE "OK")
  /\ elapsed' = IF fsmc THEN 0 ELSE elapsed
  /\ pc' = [pc EXCEPT ![t] = IF fsmc THEN "waitstop2" ELSE "release"]
  /\ UNCHANGED << polled, fsmc, duty, pclk1, frequency, ccr, trise, oar1, tndx,
                  trace, now, abstime, timeout, priv, sem_excl, sem_isr, cr2, dr, target,
                  req, rxbuf, ret, ops, abyte, loaded, last, stateerr >>

\* stm32_i2c_sem_post and the return of -errval
stm32_i2c_sem_post(t) ==
  /\ pc[t] = "release"
  /\ sem_excl' = sem_excl + 1
  /\ pc' = [pc EXCEPT ![t] = "returned"]
  /\ UNCHANGED << polled, fsmc, duty, pclk1, frequency, ccr, trise, oar1, tndx,
                  trace, now, abstime, timeout, priv, sem_isr, cr1, cr2, sr1, dr, dev, target, req,
                  rxbuf, elapsed, ret, errval, ops, abyte, loaded, last, stateerr >>

\* The system timer advances while a wait loop runs
Tick ==
  /\ \E t \in Threads : pc[t] \in {"waitstop", "wait", "waitstop2"}
  /\ elapsed < TimeoutTicks
  /\ elapsed' = elapsed + 1
  /\ UNCHANGED << polled, fsmc, duty, pclk1, frequency, ccr, trise, oar1, tndx,
                  trace, now, abstime, timeout, priv, sem_excl, sem_isr, cr1, cr2, sr1, dr, dev,
                  target, pc, req, rxbuf, ret, errval, ops, abyte, loaded,
                  last, stateerr >>

\* ------------------------------------------------------------------------
\* Specification with an unconstrained controller: SR1 may hold any of
\* StatusSet whenever the driver reads it
\* ------------------------------------------------------------------------

StatusSet ==
  { {}, {"SB"}, {"ADDR"}, {"TXE", "BTF"}, {"RXNE"}, {"RXNE", "BTF"}, {"AF"},
    {"SB", "ADDR", "TXE", "RXNE"} }

\* The hardware clears the STOP request once the STOP condition is sent
HwStopDone ==
  /\ "STOP" \in cr1
  /\ \E t \in Threads : pc[t] \in {"waitstop", "waitstop2"}
  /\ cr1' = cr1 \ {"STOP"}
  /\ UNCHANGED << polled, fsmc, duty, pclk1, frequency, ccr, trise, oar1, tndx,
                  trace, now, abstime, timeout, priv, sem_excl, sem_isr, cr2, sr1, dr, dev, target,
                  pc, req, rxbuf, elapsed, ret, errval, ops, abyte, loaded,
                  last, stateerr >>

Next ==
  \/ \E t \in Threads : stm32_i2c_write(t)
  \/ \E t \in Threads : stm32_i2c_read(t)
  \/ \E t \in Threads : stm32_i2c_sem_waitstop(t)
  \/ \E t \in Threads : ProcessSetup(t)
  \/ \E t \in Threads : WaitDoneArm(t)
  \/ \E st \in StatusSet : Isr(st)
  \/ \E t \in Threads, st \in StatusSet : Poll(t, st)
  \/ \E t \in Threads : WaitDoneWake(t)
  \/ \E t \in Threads : WaitDoneExpire(t)
  \/ \E t \in Threads : WaitDoneTimeout(t)
  \/ \E t \in Threads : ProcessPost(t)
  \/ \E t \in Threads : stm32_i2c_sem_post(t)
  \/ Tick
  \/ HwStopDone

Spec == Init /\ [][Next]_vars

\* The steps of thread t inside stm32_i2c_process
ThreadStep(t) ==
  \/ stm32_i2c_sem_waitstop(t)
  \/ ProcessSetup(t)
  \/ WaitDoneArm(t)
  \/ \E st \in StatusSet : Poll(t, st)
  \/ WaitDoneWake(t)
  \/ WaitDoneExpire(t)
  \/ WaitDoneTimeout(t)
  \/ ProcessPost(t)
  \/ stm32_i2c_sem_post(t)

\* The thread that makes the calls when there is a single caller
Caller == 1

\* One thread calling stm32_i2c_write or stm32_i2c_read, with an
\* unconstrained controller
LiveNext ==
  \/ stm32_i2c_write(Caller)
  \/ stm32_i2c_read(Caller)
  \/ ThreadStep(Caller)
  \/ \E st \in StatusSet : Isr(st)
  \/ Tick

\* That system when the scheduler runs the ready thread and the system
\* timer keeps advancing
LiveSpec ==
  /\ Init
  /\ [][LiveNext]_vars
  /\ WF_vars(Tick)
  /\ WF_vars(ThreadStep(Caller))

\* ------------------------------------------------------------------------
\* Specification with a faulty bus: one thread calling stm32_i2c_write or
\* stm32_i2c_read; SR1 may also hold error bits whenever the driver reads it
\* ------------------------------------------------------------------------

ErrorStatusSet ==
  StatusSet \cup { {b} : b \in I2C_SR1_ERRORMASK }
    \cup { {"BERR", "AF"}, {"ARLO", "OVR"}, {"AF", "TIMEOUT"},
           {"OVR", "PECERR", "TIMEOUT"}, {"TXE", "BTF", "AF"} }

ErrorNext ==
  \/ stm32_i2c_write(Caller)
  \/ stm32_i2c_read(Caller)
  \/ stm32_i2c_sem_waitstop(Caller)
  \/ ProcessSetup(Caller)
  \/ WaitDoneArm(Caller)
  \/ \E st \in ErrorStatusSet : Isr(st)
  \/ \E st \in ErrorStatusSet : Poll(Caller, st)
  \/ WaitDoneWake(Caller)
  \/ WaitDoneExpire(Caller)
  \/ WaitDoneTimeout(Caller)
  \/ ProcessPost(Caller)
  \/ stm32_i2c_sem_post(Caller)
  \/ Tick
  \/ HwStopDone

ErrorSpec == Init /\ [][ErrorNext]_vars

\* ------------------------------------------------------------------------
\* Specification of the engine under any status: one call of
\* stm32_i2c_transfer with a short request, SR1 may hold any of StatusSet
\* whenever the driver reads it
\* ------------------------------------------------------------------------

EngineNext ==
  \/ TransferShort(Caller)
  \/ stm32_i2c_sem_waitstop(Caller)
  \/ ProcessSetup(Caller)
  \/ WaitDoneArm(Caller)
  \/ \E st \in StatusSet : Isr(st)
  \/ \E st \in StatusSet : Poll(Caller, st)
  \/ WaitDoneWake(Caller)
  \/ WaitDoneExpire(Caller)
  \/ WaitDoneTimeout(Caller)
  \/ ProcessPost(Caller)
  \/ stm32_i2c_sem_post(Caller)
  \/ Tick
  \/ HwStopDone

EngineSpec == Init /\ [][EngineNext]_vars

\* One thread writes and reads through the instance, and the engine may be
\* invoked again after it has terminated a transfer
AgainNext ==
  \/ stm32_i2c_write(Caller)
  \/ stm32_i2c_read(Caller)
  \/ stm32_i2c_sem_waitstop(Caller)
  \/ ProcessSetup(Caller)
  \/ WaitDoneArm(Caller)
  \/ \E st \in StatusSet : Isr(st)
  \/ \E st \in StatusSet : Poll(Caller, st)
  \/ \E st \in StatusSet : IsrAgain(st)
  \/ WaitDoneWake(Caller)
  \/ WaitDoneExpire(Caller)
  \/ WaitDoneTimeout(Caller)
  \/ ProcessPost(Caller)
  \/ stm32_i2c_sem_post(Caller)
  \/ Tick
  \/ HwStopDone

AgainSpec == Init /\ [][AgainNext]_vars

\* The threads between the acquisition of sem_excl and its release
Holders == {t \in Threads : pc[t] \notin {"idle", "returned"}}

\* C1: at most one caller at a time is between acquiring sem_excl and the
\* release at the end of stm32_i2c_process, the semaphore count says so,
\* and the session state (msgv, msgc, dcnt) is installed only by that one
\* caller, never while another caller is inside.
C1_MutualExclusion ==
  /\ Cardinality(Holders) <= 1
  /\ sem_excl = 1 - Cardinality(Holders)
  /\ priv.intstate # INTSTATE_IDLE => Cardinality(Holders) = 1

\* A caller waits for its transfer while another thread, which has already
\* completed a call, is outside
C1_Witness ==
  \E t, u \in Threads :
    /\ t # u
    /\ pc[t] = "wait"
    /\ pc[u] = "returned"
    /\ priv.msgc > 0
    /\ sem_excl = 0

\* C2: every call of stm32_i2c_process that holds the lock eventually
\* returns, in both builds, whether the engine signals DONE or the wait
\* times out; the lock is released exactly once per call, by the returning
\* caller, and nothing else ever raises the count.
C2_Returns ==
  /\ (Caller \in Holders) ~> (pc[Caller] = "returned" /\ sem_excl = 1)
  /\ [][ /\ sem_excl' > sem_excl =>
              /\ sem_excl' = sem_excl + 1
              /\ \E t \in Threads : pc[t] = "release" /\ pc'[t] = "returned"
         /\ \A t \in Threads :
              (pc[t] # "returned" /\ pc'[t] = "returned") =>
                 (pc[t] = "release" /\ sem_excl' = sem_excl + 1) ]_vars

\* A call whose wait timed out has returned and the lock is free
C2_Witness ==
  \E t \in Threads :
    pc[t] = "returned" /\ ret # "OK" /\ sem_excl = 1
      /\ priv.intstate = INTSTATE_IDLE

\* ------------------------------------------------------------------------
\* Specification with a cooperating controller and target: one call of
\* stm32_i2c_transfer, the bus side of the peripheral follows the I2C
\* master protocol, the target acknowledges ("ack") or does not answer its
\* address ("nack")
\* ------------------------------------------------------------------------

HwUnchanged ==
  UNCHANGED << polled, fsmc, duty, pclk1, frequency, ccr, trise, oar1, tndx,
                  trace, now, abstime, timeout, priv, sem_excl, sem_isr, cr2, target, pc, req, rxbuf,
               elapsed, ret, errval, ops, abyte, loaded, last, stateerr >>

\* No byte is on its way: the transmit path is drained, the receiver has
\* NACKed the last byte
BusQuiet ==
  /\ dev.bus \notin {"sb", "addr"}
  /\ dev.bus = "tx" => dev.tx = 0
  /\ dev.bus = "rx" => dev.nacked

\* The START condition requested in CR1 goes out: SB is set, START, TXE
\* and BTF are cleared by hardware
HwStart ==
  /\ "START" \in cr1
  /\ BusQuiet
  /\ cr1' = cr1 \ {"START"}
  /\ sr1' = (sr1 \ {"TXE", "BTF"}) \cup {"SB"}
  /\ dev' = [DevInit EXCEPT !.bus = "sb", !.shift = dev.shift]
  /\ dr' = dr
  /\ HwUnchanged

\* The target acknowledges its address: ADDR is set
HwAddrAck ==
  /\ dev.bus = "addr"
  /\ "ADDR" \notin sr1
  /\ target = "ack"
  /\ sr1' = sr1 \cup {"ADDR"}
  /\ UNCHANGED << cr1, dr, dev >>
  /\ HwUnchanged

\* Nobody acknowledges the address: AF is set
HwAddrNack ==
  /\ dev.bus = "addr"
  /\ target = "nack"
  /\ sr1' = sr1 \cup {"AF"}
  /\ dev' = [dev EXCEPT !.bus = "af"]
  /\ UNCHANGED << cr1, dr >>
  /\ HwUnchanged

\* Transmitter: the byte in DR moves to the shift register, TXE is set
HwTxLoad ==
  /\ dev.bus = "tx"
  /\ dev.tx = 2
  /\ dev' = [dev EXCEPT !.tx = 1]
  /\ sr1' = sr1 \cup {"TXE"}
  /\ UNCHANGED << cr1, dr >>
  /\ HwUnchanged

\* Transmitter: the byte in the shift register has been sent and
\* acknowledged; with DR empty BTF is set, else the next byte is loaded
HwTxDone ==
  /\ dev.bus = "tx"
  /\ dev.tx \in {1, 3}
  /\ dev' = [dev EXCEPT !.tx = IF dev.tx = 1 THEN 0 ELSE 1]
  /\ sr1' = IF dev.tx = 1 THEN sr1 \cup {"BTF"} ELSE sr1 \cup {"TXE"}
  /\ UNCHANGED << cr1, dr >>
  /\ HwUnchanged

\* Whether the receiver answers byte number k with NACK: the ACK bit at
\* the time of the reception, or with POS set the ACK bit for every byte
\* after the first
RxNack(k, c1) ==
  IF "POS" \in c1 THEN k >= 2 /\ "ACK" \notin c1 ELSE "ACK" \notin c1

\* Receiver: the target sends its next byte; it lands in DR (RXNE) or, with
\* DR still full, stays in the shift register (BTF)
HwRx ==
  /\ dev.bus = "rx"
  /\ target = "ack"
  /\ ~dev.nacked
  /\ dev.shift = 0
  /\ LET k == dev.rxn + 1
     IN  /\ dr' = IF "RXNE" \in sr1 THEN dr ELSE RxByte(k)
         /\ sr1' = IF "RXNE" \in sr1 THEN sr1 \cup {"BTF"}
                   ELSE sr1 \cup {"RXNE"}
         /\ dev' = [dev EXCEPT !.rxn = k,
                               !.shift = IF "RXNE" \in sr1 THEN RxByte(k)
                                         ELSE 0,
                               !.nacked = RxNack(k, cr1)]
  /\ UNCHANGED cr1
  /\ HwUnchanged

\* The STOP condition requested in CR1 goes out: the bus is released, STOP,
\* TXE and BTF of a transmission are cleared by hardware
HwStop ==
  /\ "STOP" \in cr1
  /\ "START" \notin cr1
  /\ BusQuiet
  /\ cr1' = cr1 \ {"STOP"}
  /\ sr1' = IF dev.bus = "tx" THEN sr1 \ {"TXE", "BTF"} ELSE sr1
  /\ dev' = [dev EXCEPT !.bus = "idle"]
  /\ dr' = dr
  /\ HwUnchanged

TargetNext ==
  \/ stm32_i2c_transfer(Caller)
  \/ stm32_i2c_sem_waitstop(Caller)
  \/ ProcessSetup(Caller)
  \/ WaitDoneArm(Caller)
  \/ Isr(sr1)
  \/ Poll(Caller, sr1)
  \/ WaitDoneWake(Caller)
  \/ WaitDoneExpire(Caller)
  \/ WaitDoneTimeout(Caller)
  \/ ProcessPost(Caller)
  \/ stm32_i2c_sem_post(Caller)
  \/ Tick
  \/ HwStart
  \/ HwAddrAck
  \/ HwAddrNack
  \/ HwTxLoad
  \/ HwTxDone
  \/ HwRx
  \/ HwStop

TargetSpec == Init /\ [][TargetNext]_vars

\* ------------------------------------------------------------------------
\* Properties of the engine against an acknowledging target
\* ------------------------------------------------------------------------

IsPrefix(a, b) ==
  /\ Len(a) <= Len(b)
  /\ \A i \in 1 .. Len(a) : a[i] = b[i]

\* The data-register writes of write message i, in buffer order
WriteData(i) ==
  [j \in 1 .. req[i].length |->
     DataOp("DRW_DATA", i, BufByte(req[i].length, i, j))]

\* The data-register reads of a read message i of n bytes, in the order the
\* target sends them
ReadData(i, n) == [j \in 1 .. n |-> DataOp("DRR", i, RxByte(j))]

\* The call in progress is stm32_i2c_process on a single message
SingleMsg == Len(req) = 1

\* stm32_i2c_sem_waitdone has returned to stm32_i2c_process
Waited == pc[Caller] \in {"post", "waitstop2", "release", "returned"}

\* ... and it reported that the engine signalled DONE
Completed == Waited /\ ret = "OK"

\* The engine's requests and data accesses of the latest invocation
LastEvents ==
  SelectSeq(last, LAMBDA o :
    \/ o.op \in {"DRW_DATA", "DRR"}
    \/ o.op = "CR1" /\ o.set \cap {"START", "STOP"} # {})

\* C3: for a single write message of L >= 1 bytes to an acknowledging
\* target, what the engine has done is at every moment a prefix of: the L
\* bytes of the buffer written to DR in order, then one STOP request; no
\* data byte is written before the address byte; when the engine has
\* signalled DONE it has done all of it.
C3_SingleWrite ==
  (SingleMsg /\ target = "ack" /\ "READ" \notin req[1].flags
     /\ req[1].length >= 1) =>
    /\ IsPrefix(ops, WriteData(1) \o << stm32_i2c_sendstop >>)
    /\ ops # << >> => abyte[1] # -1
    /\ Completed => ops = WriteData(1) \o << stm32_i2c_sendstop >>

\* A three-byte write has completed
C3_Witness ==
  /\ SingleMsg /\ target = "ack" /\ req[1].flags = {} /\ req[1].length = 3
  /\ Completed
  /\ Len(ops) = 4 /\ ops[4] = stm32_i2c_sendstop

\* C3 as stated, for every length L including 0: L data writes then one
\* STOP request once the engine has signalled DONE
C3_AnyLength ==
  (SingleMsg /\ target = "ack" /\ "READ" \notin req[1].flags /\ Completed) =>
    ops = WriteData(1) \o << stm32_i2c_sendstop >>
\* The CR1 writes and DR reads of the latest invocation
LastCtl == SelectSeq(last, LAMBDA o : o.op \in {"CR1", "DRR"})

\* The invocation read DR for message i
ReadIn(i) == \E k \in 1 .. Len(last) : last[k].op = "DRR" /\ last[k].idx = i

\* Clearing the ACK bit alone: the NACK programming
NackProg == Op("CR1", {"ACK"}, {})

\* C4: for a single read message of length 1 to an acknowledging target,
\* the engine's requests and data accesses are at every moment a prefix of
\* one STOP request followed by one DR read, and all of it once the engine
\* has signalled DONE; the invocation that requests STOP is the one that
\* saw ADDR and read SR2, and it reads no data; the invocation that reads
\* the byte comes after it and requests nothing.
C4_ReadOne ==
  (SingleMsg /\ target = "ack" /\ "READ" \in req[1].flags
     /\ req[1].length = 1) =>
    /\ IsPrefix(ops, << stm32_i2c_sendstop, DataOp("DRR", 1, RxByte(1)) >>)
    /\ Completed =>
          /\ ops = << stm32_i2c_sendstop, DataOp("DRR", 1, RxByte(1)) >>
          /\ rxbuf[1] = << RxByte(1) >>
    /\ LastEvents # << >> =>
          \/ /\ LastEvents = << stm32_i2c_sendstop >>
             /\ "ADDR" \in priv.status
             /\ last[1] = ReadSR2
             /\ ops = << stm32_i2c_sendstop >>
          \/ /\ LastEvents = << DataOp("DRR", 1, 1) >>
             /\ Len(ops) = 2

\* The one-byte read has completed
C4_Witness ==
  /\ SingleMsg /\ target = "ack" /\ req[1].flags = {"READ"}
  /\ req[1].length = 1
  /\ Completed
  /\ rxbuf[1] = << RxByte(1) >>
  /\ LastEvents = << DataOp("DRR", 1, 1) >>

\* C5: for a read message of length 2, an invocation that reads DR for it
\* has observed BTF, makes exactly one STOP request and then exactly two DR
\* reads, and leaves the byte counter at -1; no other invocation reads DR
\* for that message.
C5_ReadTwo ==
  \A i \in 1 .. Len(req) :
    (req[i].length = 2 /\ ReadIn(i)) =>
      /\ "BTF" \in priv.status
      /\ LastCtl = << stm32_i2c_sendstop, DataOp("DRR", i, 1),
                      DataOp("DRR", i, 2) >>
      /\ priv.dcnt = -1
      /\ Len(SelectSeq(ops, LAMBDA o : o.op = "DRR" /\ o.idx = i)) = 2

\* The two bytes of a two-byte read were read in one invocation
C5_Witness ==
  /\ SingleMsg /\ target = "ack" /\ req[1].flags = {"READ"}
  /\ req[1].length = 2
  /\ ReadIn(1)
  /\ rxbuf[1] = << RxByte(1), RxByte(2) >>
  /\ priv.dcnt = -1

\* What the engine does for a single read message of n >= 3 bytes
ReadLongOps(n) ==
  ReadData(1, n - 2) \o << stm32_i2c_sendstop >>
    \o << DataOp("DRR", 1, RxByte(n - 1)), DataOp("DRR", 1, RxByte(n)) >>

\* C6: for a read message of length L >= 3, an invocation that reads DR
\* for it does one of three things: it reads one byte and leaves at least
\* 3 to go; or it first clears ACK and then reads one byte, leaving exactly
\* 2 to go (it started with exactly 3); or it first requests STOP and then
\* reads the last two bytes back to back, leaving the counter at -1.  For
\* a single such message to an acknowledging target the reads and the STOP
\* request come in that order, L reads in all, stored in buffer order.
C6_ReadLong ==
  /\ \A i \in 1 .. Len(req) :
       (req[i].length >= 3 /\ ReadIn(i)) =>
         LET n == req[i].length
         IN  \/ /\ LastCtl = << DataOp("DRR", i, priv.ptr) >>
                /\ priv.dcnt >= 3
                /\ priv.dcnt = n - priv.ptr
             \/ /\ LastCtl = << NackProg, DataOp("DRR", i, n - 2) >>
                /\ priv.dcnt = 2
             \/ /\ LastCtl = << stm32_i2c_sendstop, DataOp("DRR", i, n - 1),
                                DataOp("DRR", i, n) >>
                /\ priv.dcnt = -1
  /\ (SingleMsg /\ target = "ack" /\ "READ" \in req[1].flags
        /\ req[1].length >= 3) =>
       /\ IsPrefix(ops, ReadLongOps(req[1].length))
       /\ Completed =>
             /\ ops = ReadLongOps(req[1].length)
             /\ rxbuf[1] = [j \in 1 .. req[1].length |-> RxByte(j)]

\* A 2-byte write followed by a 3-byte read of the same target, the read
\* without the no-restart modifier
WriteThenRead ==
  << [addr |-> AddrOf(1), flags |-> {}, length |-> 2],
     [addr |-> AddrOf(1), flags |-> {"READ"}, length |-> 3] >>

\* What the engine does for WriteThenRead
WriteThenReadOps ==
  WriteData(1) \o << stm32_i2c_sendstart, DataOp("DRR", 2, RxByte(1)),
                     stm32_i2c_sendstop, DataOp("DRR", 2, RxByte(2)),
                     DataOp("DRR", 2, RxByte(3)) >>

\* C7: for a 2-byte write followed by a 3-byte read to the same address,
\* what the engine has done is at every moment a prefix of: the two data
\* bytes, a repeated START request, the first read byte, a STOP request,
\* the last two read bytes.  So the repeated START comes after the second
\* write byte and before any read byte, and the only STOP request comes
\* when the target has sent all three bytes of the read, none between the
\* last write byte and that point.
C7_WriteThenRead ==
  (req = WriteThenRead /\ target = "ack") =>
    /\ IsPrefix(ops, WriteThenReadOps)
    /\ (\E k \in 1 .. Len(ops) : ops[k] = stm32_i2c_sendstop) =>
          dev.rd /\ dev.rxn = 3

\* The write and the read have both completed
C7_Witness ==
  /\ req = WriteThenRead /\ target = "ack"
  /\ Completed
  /\ ops = WriteThenReadOps
  /\ rxbuf[2] = << RxByte(1), RxByte(2), RxByte(3) >>


\* stm32_i2c_process has computed its result
Classified == pc[Caller] \in {"waitstop2", "release", "returned"}

\* The engine has requested STOP
StopRequested == \E k \in 1 .. Len(ops) : ops[k] = stm32_i2c_sendstop

\* The number of bytes of message i that went through the data register
Transferred(i) ==
  Len(SelectSeq(ops, LAMBDA o : o.op \in {"DRW_DATA", "DRR"} /\ o.idx = i))

\* C8: when the target does not acknowledge its address (AF is raised, ADDR
\* never), no data byte of any message is written to or read from DR; in
\* the interrupt build the engine invocation that observes AF leaves
\* dcnt = -1 and msgc = 0 with STOP requested, a successful wait means it
\* has done so, and stm32_i2c_process then returns ENXIO; in the polled
\* build the wait ends by its timeout and the call fails.
C8_AddressNack ==
  target = "nack" =>
    /\ \A i \in 1 .. Len(req) : Transferred(i) = 0 /\ rxbuf[i] = << >>
    /\ "ADDR" \notin sr1
    /\ (~polled /\ "AF" \in priv.status) =>
          /\ priv.dcnt = -1 /\ priv.msgc = 0
          /\ StopRequested
          /\ Classified => errval = "ENXIO"
    /\ (~polled /\ "AF" \in sr1 /\ Completed) => "AF" \in priv.status
    /\ (polled /\ "AF" \in sr1 /\ Waited) =>
          /\ ret = "ETIMEDOUT"
          /\ Classified => errval \in {"ENXIO", "ETIMEDOUT"}

\* Interrupt build: the engine has aborted on the address NACK and the call
\* has returned ENXIO
C8_Witness ==
  /\ target = "nack" /\ ~polled
  /\ "AF" \in priv.status
  /\ ops = << stm32_i2c_sendstop >>
  /\ pc[Caller] = "returned" /\ ret = "OK" /\ errval = "ENXIO"

C10_AllOrError ==
  (Classified /\ errval = "OK") =>
    \A i \in 1 .. Len(req) : Transferred(i) = req[i].length

\* ------------------------------------------------------------------------
\* Error reporting of stm32_i2c_process
\* ------------------------------------------------------------------------

\* C11: in the interrupt build, when the engine's error handler (no
\* recognized status combination) has aborted the transfer, the
\* stm32_i2c_process call that armed it returns a non-zero result.
C11_StateErrorReported ==
  (~polled /\ stateerr /\ Classified) => errval # "OK"

\* The six error conditions of SR1 and the order in which
\* stm32_i2c_process tests the error bits
SixConditions == {"BERR", "ARLO", "AF", "OVR", "PECERR", "TIMEOUT"}
Priority ==
  << "BERR", "ARLO", "AF", "OVR", "PECERR", "TIMEOUT", "SMBALERT" >>

\* The error code of each error bit
ErrorCode ==
  << "EIO", "EAGAIN", "ENXIO", "EIO", "EPROTO", "ETIME", "EINTR" >>

\* Position in Priority of the first error bit of a status
FirstError(bits) ==
  CHOOSE i \in 1 .. Len(Priority) :
    /\ Priority[i] \in bits
    /\ \A j \in 1 .. i - 1 : Priority[j] \notin bits

\* The SR1 error bits the engine observed last
ErrorBits == priv.status \cap I2C_SR1_ERRORMASK

\* C12 as stated: when exactly one of the six error conditions was observed
\* last, the result of stm32_i2c_process differs from the result that any
\* other of the six conditions gives, so the caller can tell them apart.
C12_Distinct ==
  Classified =>
    \A b \in SixConditions : ErrorBits = {b} =>
      \A c \in SixConditions \ {b} :
        errval # Classify([sr1 |-> {c}, sr2 |-> {}], "OK")

\* C12: the result of stm32_i2c_process is a function of the SR1 error bits
\* observed last: the code of the first bit set in the order bus error,
\* arbitration lost, acknowledge failure, overrun, PEC error, timeout,
\* SMBus alert.  The codes are EIO, EAGAIN, ENXIO, EIO, EPROTO, ETIME and
\* EINTR: bus error and overrun share EIO, every other pair differs.
\* Without an error bit the result is success or the wait timeout.
C12_ErrorCodes ==
  Classified =>
    IF ErrorBits # {}
    THEN errval = ErrorCode[FirstError(ErrorBits)]
    ELSE errval = (IF ret = "OK" THEN "OK" ELSE "ETIMEDOUT")

\* An overrun was observed last and is reported with the code of a bus
\* error
C12_Witness ==
  /\ Classified
  /\ ErrorBits = {"OVR"}
  /\ errval = "EIO"
  /\ errval = Classify([sr1 |-> {"BERR"}, sr2 |-> {}], "OK")

\* C13: when the wait has failed, no SR1 error bit is set (neither in the
\* status the engine observed last nor in SR1 itself) and SR2 shows BUSY
\* when stm32_i2c_process fetches the status, the call's result is EBUSY;
\* and EBUSY is the result only after a failed wait.
C13_BusyAfterTimeout ==
  /\ [][ ( /\ pc[Caller] = "post" /\ pc'[Caller] # "post"
            /\ ret # "OK"
            /\ ErrorBits = {}
            /\ sr1 \cap I2C_SR1_ERRORMASK = {}
            /\ "BUSY" \in SR2 )
          => errval' = "EBUSY" ]_vars
  /\ [](Classified /\ errval = "EBUSY" => ret # "OK")

Requested == cr1 \cap {"START", "STOP", "PEC"}

\* C15: after a failed wait stm32_i2c_process leaves CR1 with START, STOP
\* and PEC cleared and, in the polled build, with STOP requested after the
\* clearing, so that the STOP request survives it; from there to the
\* release of the lock no request other than that STOP is outstanding.
C15_TimeoutRecovery ==
  /\ [][ \A t \in Threads :
            (pc[t] = "post" /\ pc'[t] # "post" /\ ret # "OK")
              => Requested' = (IF polled THEN {"STOP"} ELSE {}) ]_vars
  /\ [](\A t \in Threads :
          (pc[t] \in {"waitstop2", "release"} /\ ret # "OK")
             => Requested \subseteq (IF polled THEN {"STOP"} ELSE {}))

\* The polled wait has timed out before the engine saw the start bit (no
\* address byte was written), with the START of the setup still requested;
\* the call is about to release the lock with STOP as the only request
C15_Witness ==
  \E t \in Threads :
    /\ polled
    /\ pc[t] = "release"
    /\ ret = "ETIMEDOUT"
    /\ abyte = << -1 >>
    /\ Requested = {"STOP"}

\* ------------------------------------------------------------------------
\* Properties of the engine under any status
\* ------------------------------------------------------------------------

\* C16: the messages the engine has loaded are at every moment the first
\* messages of the request in submission order, each once; the engine
\* loads a message only when the byte counter is -1, and the message it
\* loads is the one after the last it loaded.
C16_LoadOrder ==
  /\ [](/\ Len(loaded) <= Len(req)
        /\ loaded = [i \in 1 .. Len(loaded) |-> i])
  /\ [][ (loaded' # loaded /\ loaded' # << >>)
            => /\ priv.dcnt = -1
               /\ loaded' = Append(loaded, Len(loaded) + 1) ]_vars

\* Both messages of a two-message request have been loaded, in order
C16_Witness ==
  /\ Len(req) = 2
  /\ loaded = << 1, 2 >>
  /\ pc[Caller] = "returned"

\* C17: for every message with seven-bit addressing, the address byte the
\* engine has written after that message's START is the message's own
\* target address shifted left by one, with the message's read bit in
\* bit 0.
C17_OwnAddress ==
  \A i \in 1 .. Len(req) :
    (abyte[i] # -1 /\ "TEN" \notin req[i].flags) =>
      abyte[i] = 2 * req[i].addr
                   + (IF "READ" \in req[i].flags THEN 1 ELSE 0)

\* A step is a further engine invocation after termination: the engine
\* runs only while a thread waits (handshake state WAITING) unless it is
\* such an invocation, and nothing else changes the session state or the
\* record of the latest invocation while no thread moves
FurtherInvocation ==
  /\ Terminated(priv)
  /\ priv.intstate \in {INTSTATE_DONE, INTSTATE_IDLE}
  /\ pc' = pc
  /\ (last' # last \/ priv' # priv)

\* The register writes among the accesses os
Writes(os) ==
  SelectSeq(os, LAMBDA o : o.op \in {"CR1", "CR2", "DRW_ADDR", "DRW_DATA"})

TimeoutSet == pc[Caller] = "wait"

\* A struct timespec is a valid point in time
ValidTime(ts) == ts.tv_sec >= 0 /\ ts.tv_nsec \in 0 .. NSEC_PER_SEC - 1

\* Point in time a is not later than b
NotLater(a, b) ==
  a.tv_sec < b.tv_sec \/ (a.tv_sec = b.tv_sec /\ a.tv_nsec <= b.tv_nsec)

\* C19: with the dynamic timeout, the time the wait allows does not
\* decrease with the total byte count of the request: in the polled build
\* no request of fewer bytes gets a larger tick threshold, and in the
\* interrupt build the deadline handed to sem_timedwait is a valid point in
\* time, not before the clock value, and no request of fewer bytes gets a
\* later deadline from the same clock value.
C19_TimeoutGrows ==
  TimeoutSet =>
    LET n == ByteCount(Len(req), req, 1)
        fewer == {r \in BigRequests : ByteCount(Len(r), r, 1) <= n}
    IN  IF polled
        THEN \A r \in fewer :
               USEC2TICK(stm32_i2c_tousecs(Len(r), r, 1)) <= timeout
        ELSE /\ ValidTime(abstime)
             /\ NotLater(now, abstime)
             /\ \A r \in fewer :
                  NotLater(Deadline(now, stm32_i2c_tousecs(Len(r), r, 1)),
                           abstime)

\* C19, polled build alone: no request of fewer bytes gets a larger tick
\* threshold.
C19_PolledGrows ==
  (TimeoutSet /\ polled) =>
    \A r \in BigRequests :
      ByteCount(Len(r), r, 1) <= ByteCount(Len(req), req, 1) =>
        USEC2TICK(stm32_i2c_tousecs(Len(r), r, 1)) <= timeout

\* Thread t enters pc value v
Enters(t, v) == pc[t] # v /\ pc'[t] = v

\* C20 as stated: every stm32_i2c_process call waits for a pending STOP
\* both before it sets the transfer up and issues START, and again after
\* the transaction, before it releases the lock.
C20_WaitStopTwice ==
  [][ \A t \in Threads :
        /\ Enters(t, "setup") => pc[t] = "waitstop"
        /\ Enters(t, "release") => pc[t] = "waitstop2" ]_vars

\* C20: every stm32_i2c_process call waits for a pending STOP once: in a
\* build without I2C1_FSMC_CONFLICT before it sets the transfer up and
\* issues START, and not after the transaction; in a build with
\* I2C1_FSMC_CONFLICT after the transaction, before it releases the lock,
\* and not before START.
C20_WaitStopOnce ==
  [][ \A t \in Threads :
        /\ Enters(t, "setup") =>
             pc[t] = (IF fsmc THEN "idle" ELSE "waitstop")
        /\ Enters(t, "release") =>
             pc[t] = (IF fsmc THEN "waitstop2" ELSE "post") ]_vars

\* A call has returned without waiting for the STOP that it requested and
\* that is still pending
C20_Witness ==
  \E t \in Threads : ~fsmc /\ pc[t] = "returned" /\ "STOP" \in cr1

\* The session with the values that the previous transaction left in the
\* message snapshot and the address-pending flag replaced by fresh ones
Fresh(p) ==
  [p EXCEPT !.flags = {}, !.check_addr_ACK = FALSE, !.total_msg_len = 0,
            !.ptr = 0, !.cur = 0]

\* The step is the first engine invocation of a transaction: it loads the
\* first message
FirstInvocation == loaded = << >> /\ loaded' # << >>

\* C21: no counter or flag value left by the previous transaction is
\* visible to the first engine invocation of a transaction: the invocation
\* makes the register accesses and leaves the byte counter and the message
\* count that it would with a freshly reset session.
C21_NoStaleState ==
  [][ FirstInvocation =>
        LET f == stm32_i2c_isr(Fresh(priv), priv'.status, req, polled)
        IN  /\ last' = f.ops
            /\ priv'.dcnt = f.p.dcnt
            /\ priv'.msgc = f.p.msgc ]_vars

\* The step is an engine invocation on behalf of a waiting thread: nothing
\* else changes the status snapshot or the histories of the engine while
\* the handshake state is WAITING
EngineStep ==
  /\ priv.intstate = INTSTATE_WAITING
  /\ (priv'.status # priv.status \/ last' # last \/ loaded' # loaded)

\* The bytes of message i moved so far: data bytes written to the data
\* register for a write, bytes stored in the buffer for a read
Moved(i) ==
  IF "READ" \in req[i].flags
  THEN Len(rxbuf[i])
  ELSE Len(SelectSeq(ops, LAMBDA o : o.op = "DRW_DATA" /\ o.idx = i))

\* C22: during a transaction the byte counter is at least -1; it is -1
\* before the first message is loaded, and when it is -1 afterwards the
\* loaded message is no longer in progress: all its bytes have been moved
\* or the engine has given the transfer up; an engine invocation switches
\* to the next message (its flags and length are loaded, msgc is
\* decremented, msgv advances unless msgc became 0) if and only if at its
\* entry the counter is -1 and messages remain.
C22_Counter ==
  /\ [](priv.dcnt >= -1)
  /\ []((pc[Caller] \in {"arm", "wait"} /\ loaded = << >>) => priv.dcnt = -1)
  /\ []((pc[Caller] = "wait" /\ loaded # << >> /\ priv.dcnt = -1) =>
          \/ Moved(priv.cur) = req[priv.cur].length
          \/ priv.msgc = 0)
  /\ [][ EngineStep =>
           /\ (loaded' # loaded) <=> (priv.dcnt = -1 /\ priv.msgc > 0)
           /\ (loaded' # loaded) =>
                /\ loaded' = Append(loaded, priv.msgv)
                /\ priv'.cur = priv.msgv
                /\ priv'.flags = req[priv.msgv].flags
                /\ priv'.msgc \in {priv.msgc - 1, 0}
                /\ priv'.msgv \in {IF priv.msgc = 1 THEN priv.msgv
                                    ELSE priv.msgv + 1, 0} ]_vars

\* The engine is between the two messages of a request: the first has
\* been moved whole and the second is not loaded yet
C22_Witness ==
  /\ pc[Caller] = "wait"
  /\ Len(req) = 2
  /\ loaded = << 1 >>
  /\ priv.dcnt = -1
  /\ priv.msgc = 1
  /\ req[1].length > 0
  /\ Moved(1) = req[1].length

\* The phases of the dispatch in their precedence
Precedence ==
  << "addr", "nack", "ack_read", "write", "read", "empty", "error" >>

\* The condition under which phase b applies to session p and status st
PhaseCond(b, p, st) ==
  CASE b = "addr" -> "SB" \in st
    [] b = "nack" -> ~polled /\ "ADDR" \notin st /\ p.check_addr_ACK
    [] b = "ack_read" ->
         "READ" \in p.flags /\ "ADDR" \in st /\ p.check_addr_ACK
    [] b = "write" -> "READ" \notin p.flags /\ st \cap {"ADDR", "TXE"} # {}
    [] b = "read" -> "READ" \in p.flags /\ "RXNE" \in st
    [] b = "empty" -> p.dcnt = -1 /\ p.msgc = 0
    [] OTHER -> TRUE

\* The first phase in the precedence whose condition holds
FirstPhase(p, st) ==
  LET i == CHOOSE i \in 1 .. Len(Precedence) :
             /\ PhaseCond(Precedence[i], p, st)
             /\ \A j \in 1 .. i - 1 : ~PhaseCond(Precedence[j], p, st)
  IN  Precedence[i]

\* What phase b alone does to session p
PhaseAlone(b, p, st) ==
  CASE b = "addr" -> AddrHandling(p, req)
    [] b = "nack" -> AddrNack(p)
    [] b = "ack_read" -> AddrAckRead(p)
    [] b = "write" -> WriteMode(p, req)
    [] b = "read" -> ReadMode(p, st)
    [] b = "empty" -> EmptyCall(p)
    [] OTHER -> StateError(p, polled)

\* The data-register accesses among os that move data
DataMoves(os) == SelectSeq(os, LAMBDA o : o.op \in {"DRR", "DRW_DATA"})

\* C23: in each engine invocation exactly one phase of the dispatch runs,
\* the first in the precedence start bit, address NACK (interrupt build
\* only), address ACK for a read, write, read, idle, error whose condition
\* holds: the register accesses of the invocation are those of that phase
\* followed by those of the shutdown; with the start bit set this is the
\* address handling whatever else is set, and the invocation neither
\* reads data from the data register nor writes data to it.
C23_OnePhase ==
  [][ EngineStep =>
        LET st == priv'.status
            p1 == MsgAdvance([priv EXCEPT !.status = st], req)
            d == PhaseAlone(FirstPhase(p1, st), p1, st)
        IN  /\ last' = d.ops \o Shutdown(d.p, polled).ops
            /\ priv'.dcnt = d.p.dcnt
            /\ priv'.msgc = d.p.msgc
            /\ "SB" \in st =>
                 /\ FirstPhase(p1, st) = "addr"
                 /\ DataMoves(last') = << >> ]_vars

\* The engine has run with the start bit, ADDR, TXE and RXNE all set and
\* has written the address byte
C23_Witness ==
  /\ pc[Caller] = "wait"
  /\ priv.status = {"SB", "ADDR", "TXE", "RXNE"}
  /\ \E k \in 1 .. Len(last) : last[k].op = "DRW_ADDR"

\* The START and STOP requests among the accesses os
StartStop(os) ==
  SelectSeq(os, LAMBDA o : o.op = "CR1" /\ o.set \cap {"START", "STOP"} # {})

\* The step is an engine invocation that takes the write phase after the
\* last byte of the loaded message: the counter is 0 at its entry
WriteEndStep ==
  /\ EngineStep
  /\ priv.dcnt = 0
  /\ FirstPhase([priv EXCEPT !.status = priv'.status], priv'.status) = "write"

\* Message i is the last of the request
IsLast(i) == i = Len(req)

\* C24: in the write phase with the counter at 0 the remaining messages
\* alone decide: with no message left the engine requests STOP; with a
\* next message that has no flags or has the read flag (with the
\* no-restart modifier or without) it requests a repeated START; with a
\* next message that has the no-restart modifier and no read flag it
\* requests neither; in all three cases the counter becomes -1.
C24_WriteEnd ==
  [][ WriteEndStep =>
        LET i == priv.cur
            nf == req[i + 1].flags
        IN  IF IsLast(i)
            THEN /\ priv.msgc = 0
                 /\ StartStop(last') = << stm32_i2c_sendstop >>
                 /\ priv'.dcnt = -1
            ELSE /\ priv.msgc > 0
                 /\ (nf = {} \/ "READ" \in nf) =>
                      /\ StartStop(last') = << stm32_i2c_sendstart >>
                      /\ priv'.dcnt = -1
                 /\ ("NORESTART" \in nf /\ "READ" \notin nf) =>
                      /\ StartStop(last') = << >>
                      /\ priv'.dcnt = -1 ]_vars

\* The engine has ended a write message before a message that has the
\* read flag and the no-restart modifier, with a repeated START
C24_Witness ==
  /\ pc[Caller] = "wait"
  /\ Len(req) = 2
  /\ req[1].flags = {}
  /\ req[2].flags = {"READ", "NORESTART"}
  /\ loaded = << 1 >>
  /\ priv.dcnt = -1
  /\ StartStop(last) = << stm32_i2c_sendstart >>

\* Flags that the end of a write message does not recognize in the next
\* message: not zero, and neither the read flag nor the no-restart modifier
Unrecognized(f) == f # {} /\ "READ" \notin f /\ "NORESTART" \notin f

\* Sessions p and q differ in nothing but the status snapshot and the
\* handshake state
SameSession(p, q) ==
  [p EXCEPT !.status = {}, !.intstate = INTSTATE_IDLE]
    = [q EXCEPT !.status = {}, !.intstate = INTSTATE_IDLE]

\* The loaded write message has been sent and the message after it has
\* flags that are not recognized
Stalled ==
  /\ loaded # << >>
  /\ priv.dcnt = 0
  /\ priv.msgc > 0
  /\ ~IsLast(priv.cur)
  /\ "READ" \notin priv.flags
  /\ req[priv.cur].length > 0
  /\ Unrecognized(req[priv.cur + 1].flags)

\* C25: when a write message has been sent whole and the flags of the next
\* message are not zero and have neither the read flag nor the no-restart
\* modifier, an engine invocation in the write phase changes no session
\* state and requests neither START nor STOP; the engine stays there, never
\* signals completion, and the wait ends only by its timeout.
C25_Stall ==
  /\ [][ (WriteEndStep /\ Stalled) =>
           /\ SameSession(priv', priv)
           /\ Writes(last') = << >> ]_vars
  /\ [][ (Stalled /\ pc[Caller] \in {"wait", "expired"}) =>
           /\ SameSession(priv', priv)
           /\ priv'.intstate # INTSTATE_DONE
           /\ sem_isr' = sem_isr
           /\ pc'[Caller] = "post" => ret' # "OK" ]_vars

\* The engine has stalled before a ten-bit message, has been invoked
\* there, and the call has returned by the timeout of its wait
C25_Witness ==
  /\ pc[Caller] = "returned"
  /\ Stalled
  /\ req[priv.cur + 1].flags = {"TEN"}
  /\ last = << ReadSR2 >>
  /\ ret # "OK"
  /\ errval = "ETIMEDOUT"

\* The session at the dispatch of the engine invocation that the step is
Dispatched == MsgAdvance([priv EXCEPT !.status = priv'.status], req)

\* The step is an engine invocation that takes the address handling for a
\* message that is not empty
AddrStep ==
  /\ EngineStep
  /\ "SB" \in priv'.status
  /\ Dispatched.dcnt > 0

\* C26: after the address handling of a message that is not empty, CR1
\* has ACK = 0 and POS = 0 for a read of length 1, ACK = 1 and POS = 1 for a
\* read of length 2, and ACK = 1 and POS = 0 for every write and every read
\* of length 3 or more, whatever POS was; the bits are programmed before
\* the address byte is written to the data register.
C26_AckPos ==
  [][ AddrStep =>
        LET m == req[Dispatched.cur]
            rd == "READ" \in m.flags
        IN  /\ ("ACK" \in cr1') <=> ~(rd /\ m.length = 1)
            /\ ("POS" \in cr1') <=> (rd /\ m.length = 2)
            /\ \A j, k \in 1 .. Len(last') :
                 (last'[j].op = "CR1" /\ last'[k].op = "DRW_ADDR") => j < k
            /\ \E k \in 1 .. Len(last') : last'[k].op = "DRW_ADDR" ]_vars

\* The step is an engine invocation during a read message of two bytes or
\* more that observes RXNE set and BTF clear
RxneOnlyStep ==
  /\ EngineStep
  /\ loaded # << >>
  /\ priv.dcnt > 0
  /\ "READ" \in req[priv.cur].flags
  /\ req[priv.cur].length >= 2
  /\ "RXNE" \in priv'.status
  /\ "BTF" \notin priv'.status

\* The accesses among os that read the data register
DataReads(os) == SelectSeq(os, LAMBDA o : o.op = "DRR")

\* The accesses among os that clear ACK in CR1
Nacks(os) == SelectSeq(os, LAMBDA o : o.op = "CR1" /\ "ACK" \in o.clr)

\* C27: during a read message of two bytes or more, an engine invocation
\* that observes RXNE set and BTF clear does not read the data register,
\* changes neither the byte counter, the buffer pointer nor the message
\* count, and requests neither STOP nor NACK.
C27_WaitForBtf ==
  [][ RxneOnlyStep =>
        /\ DataReads(last') = << >>
        /\ priv'.dcnt = priv.dcnt
        /\ priv'.ptr = priv.ptr
        /\ priv'.msgc = priv.msgc
        /\ StartStop(last') = << >>
        /\ Nacks(last') = << >> ]_vars

\* The step is an engine invocation that matches no phase of the dispatch
NoPhaseStep ==
  /\ EngineStep
  /\ FirstPhase(Dispatched, priv'.status) = "error"

Posts(os) == SelectSeq(os, LAMBDA o : o.op = "POST")

\* C29: the handshake state becomes DONE only in an engine invocation that
\* ends with dcnt = -1 and msgc = 0; in the interrupt build only from
\* WAITING, with exactly one post of the wait semaphore and with the three
\* interrupt enables of CR2 cleared in the same invocation, and the
\* semaphore is posted in no other invocation; every invocation that ends
\* with dcnt = -1 and msgc = 0 clears the message pointer.
C29_Done ==
  /\ [][ (priv'.intstate = INTSTATE_DONE /\ priv.intstate # INTSTATE_DONE) =>
           /\ Terminated(priv')
           /\ priv'.msgv = 0
           /\ ~polled =>
                /\ priv.intstate = INTSTATE_WAITING
                /\ Len(Posts(last')) = 1
                /\ sem_isr' = sem_isr + 1
                /\ cr2' \cap I2C_CR2_ALLINTS = {}
                /\ \E k \in 1 .. Len(last') :
                     last'[k] = Op("CR2", I2C_CR2_ALLINTS, {}) ]_vars
  /\ [][ sem_isr' > sem_isr =>
           (priv'.intstate = INTSTATE_DONE /\ priv.intstate = INTSTATE_WAITING)
     ]_vars
  /\ [][ ((EngineStep \/ FurtherInvocation) /\ Terminated(priv')) =>
           priv'.msgv = 0 ]_vars

\* The engine of the interrupt build has signalled completion: DONE, one
\* post, the interrupt enables cleared, the message pointer cleared
C29_Witness ==
  /\ ~polled
  /\ pc[Caller] = "wait"
  /\ priv.intstate = INTSTATE_DONE
  /\ sem_isr = 1
  /\ cr2 \cap I2C_CR2_ALLINTS = {}
  /\ priv.msgv = 0
  /\ Len(Posts(last)) = 1

\* The step is an engine invocation that observes the start bit while the
\* loaded message has length 0
EmptyMsgStep ==
  /\ EngineStep
  /\ "SB" \in priv'.status
  /\ Dispatched.cur >= 1
  /\ req[Dispatched.cur].length = 0
  /\ Dispatched.dcnt = 0

\* The step signals the completion of the transfer to the waiting thread:
\* the interrupt build posts the wait semaphore, the polled wait loop ends
\* with success
SignalsCompletion ==
  IF polled
  THEN pc[Caller] = "wait" /\ pc'[Caller] = "post" /\ ret' = "OK"
  ELSE priv'.intstate = INTSTATE_DONE /\ sem_isr' = sem_isr + 1

\* C30: when the start bit is observed while the loaded message has length
\* 0, the engine writes neither an address byte nor data to the data
\* register, sets dcnt = -1 and sets ITBUFEN; if no message remains the
\* same invocation signals completion; if messages remain it does not, and
\* the following invocation loads the next message.
C30_EmptyMessage ==
  /\ [][ EmptyMsgStep =>
           /\ \A k \in 1 .. Len(last') :
                last'[k].op \notin {"DRW_ADDR", "DRW_DATA", "DRR"}
           /\ dr' = dr
           /\ priv'.dcnt = -1
           /\ last'[1] = Op("CR2", {}, {"ITBUFEN"})
           /\ IF Dispatched.msgc = 0
              THEN SignalsCompletion
              ELSE /\ priv'.msgc = Dispatched.msgc
                   /\ priv'.intstate # INTSTATE_DONE
                   /\ "ITBUFEN" \in cr2' ]_vars
  /\ [][ ( /\ EngineStep
           /\ loaded # << >>
           /\ req[priv.cur].length = 0
           /\ priv.dcnt = -1
           /\ priv.msgc > 0 ) =>
           loaded' = Append(loaded, priv.cur + 1) ]_vars

\* The engine has passed an empty first message without addressing the
\* target and has loaded the second message
C30_Witness ==
  /\ pc[Caller] = "wait"
  /\ Len(req) = 2
  /\ req[1].length = 0
  /\ abyte[1] = -1
  /\ loaded = << 1, 2 >>

\* The handshake state that the engine leaves when it is invoked in the
\* step: the state in which it finds the status that the session holds
\* after the step
EngineLeaves ==
  stm32_i2c_isr(priv, priv'.status, req, polled).p.intstate

\* C31: the polled stm32_i2c_sem_waitdone invokes the engine at least once
\* whatever the time elapsed, goes on invoking it while the state is not
\* DONE and the elapsed ticks are below the timeout, and returns success if
\* and only if the state is DONE when the loop ends: a completion in the
\* iteration in which the timeout elapses is a success.
C31_PolledWait ==
  /\ [](\A t \in Threads :
          (polled /\ pc[t] \in {"post", "waitstop2", "release"}) =>
             loaded # << >>)
  /\ [][ \A t \in Threads :
           (polled /\ pc[t] = "wait" /\ pc'[t] # "wait") =>
             /\ last' = stm32_i2c_isr(priv, priv'.status, req, polled).ops
             /\ priv'.intstate = INTSTATE_IDLE
             /\ ret' = "OK" <=> EngineLeaves = INTSTATE_DONE
             /\ ret' # "OK" => (ret' = "ETIMEDOUT" /\ elapsed >= TimeoutTicks)
     ]_vars
  /\ [][ \A t \in Threads :
           ( /\ polled /\ pc[t] = "wait" /\ EngineStep
             /\ EngineLeaves # INTSTATE_DONE
             /\ elapsed < TimeoutTicks ) => pc'[t] = "wait" ]_vars

\* The polled wait has returned success from its first iteration, in
\* which the engine completed the transfer and the timeout had elapsed
C31_Witness ==
  /\ polled
  /\ pc[Caller] = "post"
  /\ ret = "OK"
  /\ elapsed >= TimeoutTicks
  /\ loaded = << 1 >>
  /\ Terminated(priv)

\* The thread is inside stm32_i2c_sem_waitstop
InWaitStop(t) == pc[t] \in {"waitstop", "waitstop2"}

\* C32: stm32_i2c_sem_waitstop returns when it sees the STOP bit of CR1
\* clear or the TIMEOUT bit of SR1 set, returns in any case once the
\* elapsed ticks reach the timeout, so it always ends while the clock
\* advances, and it writes no register and no session state.
C32_WaitStop ==
  /\ [][ \A t \in Threads :
           (InWaitStop(t) /\ pc'[t] # pc[t]) =>
             /\ \/ "STOP" \notin cr1
                \/ "TIMEOUT" \in sr1
                \/ elapsed >= TimeoutTicks
             /\ pc'[t] = IF pc[t] = "waitstop" THEN "setup" ELSE "release"
             /\ UNCHANGED << priv, cr1, cr2, sr1, dr, rxbuf, req, ret,
                             errval, sem_excl, sem_isr >>
     ]_vars
  /\ [](\A t \in Threads :
          ( /\ InWaitStop(t)
            /\ \/ "STOP" \notin cr1
               \/ "TIMEOUT" \in sr1
               \/ elapsed >= TimeoutTicks )
          => ENABLED stm32_i2c_sem_waitstop(t))
  /\ (InWaitStop(Caller) ~> ~InWaitStop(Caller))

\* stm32_i2c_sem_waitstop has given up: it has returned to the release of
\* the bus after the timeout, and the STOP that the transfer requested is
\* still pending
C32_Witness ==
  /\ pc[Caller] = "release"
  /\ "STOP" \in cr1
  /\ "TIMEOUT" \notin sr1
  /\ elapsed >= TimeoutTicks

\* ------------------------------------------------------------------------
\* The clock configuration

\* stm32_i2c_setfrequency: under the exclusion lock, store the frequency
\* for the next transfers (100 kHz whatever is asked when the clock is
\* below 4 MHz)
stm32_i2c_setfrequency(t, f) ==
  /\ pc[t] = "idle"
  /\ SemTake(sem_excl)
  /\ frequency' = IF pclk1 < 4000000 THEN 100000 ELSE f
  /\ UNCHANGED << polled, fsmc, duty, pclk1, ccr, trise, oar1, tndx, trace,
                  now, abstime, timeout, priv, sem_excl, sem_isr, cr1, cr2,
                  sr1, dr, dev, target, pc, req, rxbuf, elapsed, ret, errval,
                  ops, abyte, loaded, last, stateerr >>

\* The state after up_i2cinitialize on each board and in each build
ClockInit ==
  /\ polled \in BOOLEAN
  /\ fsmc \in BOOLEAN
  /\ priv = PrivInit
  /\ sem_excl = 1
  /\ sem_isr = 0
  /\ cr1 = {"PE"}
  /\ cr2 = {}
  /\ sr1 = {}
  /\ dr = 0
  /\ dev = DevInit
  /\ target = "any"
  /\ pc = [t \in Threads |-> "idle"]
  /\ req = << >>
  /\ rxbuf = << >>
  /\ elapsed = 0
  /\ ret = "OK"
  /\ errval = "OK"
  /\ ops = << >>
  /\ abyte = << >>
  /\ loaded = << >>
  /\ last = << >>
  /\ stateerr = FALSE
  /\ now = TimeZero
  /\ abstime = TimeZero
  /\ timeout = 0
  /\ duty \in BOOLEAN
  /\ pclk1 \in Pclks
  /\ frequency = 100000
  /\ ccr = stm32_i2c_setclock({}, pclk1, duty, 100000).ccr
  /\ trise = stm32_i2c_setclock({}, pclk1, duty, 100000).trise
  /\ oar1 = I2C_OAR1_ONE
  /\ tndx = 0
  /\ trace = [i \in 0 .. CONFIG_I2C_NTRACE - 1 |-> TraceClear]

\* A caller sets frequencies and starts transfers, up to the START
ClockNext ==
  \/ \E f \in Frequencies : stm32_i2c_setfrequency(Caller, f)
  \/ stm32_i2c_write(Caller)
  \/ stm32_i2c_read(Caller)
  \/ stm32_i2c_sem_waitstop(Caller)
  \/ ProcessSetup(Caller)

ClockSpec == ClockInit /\ [][ClockNext]_vars

\* The greater of two numbers
Max(a, b) == IF a >= b THEN a ELSE b

\* The divider that I2C_CCR holds
Divider(c) == c % (I2C_CCR_CCR_MASK + 1)

\* stm32_i2c_process programs the clock for the frequency set
ClockStep ==
  /\ pc[Caller] = "setup"
  /\ pc'[Caller] = "arm"
  /\ 1 <= frequency
  /\ frequency <= MaxFrequency

\* What the clock registers must hold for frequency f, peripheral clock P
\* and duty cycle option d
Programmed(c, tr, P, d, f) ==
  IF f <= 100000
  THEN /\ Divider(c) = Max(4, P \div (2 * f))
       /\ ~BitSet(c, I2C_CCR_FS)
       /\ ~BitSet(c, I2C_CCR_DUTY)
       /\ tr = (P \div 1000000) + 1
  ELSE /\ Divider(c) = Max(1, P \div ((IF d THEN 25 ELSE 3) * f))
       /\ BitSet(c, I2C_CCR_FS)
       /\ BitSet(c, I2C_CCR_DUTY) <=> d
       /\ tr = (((P \div 1000000) * 300) \div 1000) + 1

\* C33: for every frequency f from 1 to 400000 and the peripheral clock P,
\* stm32_i2c_setclock programs, for f <= 100000, the divider
\* max(4, P / (2 f)) with no mode bit and the rise time P_MHz + 1, and for
\* f > 100000 the divider max(1, P / (3 f)) (P / (25 f) with the alternate
\* duty cycle) with the fast-mode bit (and the duty bit) and the rise time
\* (P_MHz * 300 / 1000) + 1; it leaves CR1 equal to its value before the
\* call.
C33_Clock ==
  [][ ClockStep =>
        /\ Programmed(ccr', trise', pclk1, duty, frequency)
        /\ \A c \in SUBSET {"PE", "ACK", "START"} :
              stm32_i2c_setclock(c, pclk1, duty, frequency).cr1 = c
    ]_vars

\* The same for the frequencies whose standard mode quotient fits the
\* 12 bits of the divider
C33_ClockInRange ==
  [][ (ClockStep /\ pclk1 \div (2 * frequency) <= I2C_CCR_CCR_MASK) =>
        Programmed(ccr', trise', pclk1, duty, frequency)
    ]_vars

\* ------------------------------------------------------------------------
\* The tracer calls (build with CONFIG_I2C_TRACE)

\* All but the two variables of the tracer
TraceUnchanged ==
  UNCHANGED << polled, fsmc, duty, pclk1, frequency, ccr, trise, oar1, now,
               abstime, timeout, priv, sem_excl, sem_isr, cr1, cr2, sr1, dr,
               dev, target, pc, req, rxbuf, elapsed, ret, errval, ops, abyte,
               loaded, last, stateerr >>

\* stm32_i2c_tracereset
stm32_i2c_tracereset ==
  /\ tndx' = 0
  /\ trace' = [trace EXCEPT ![0] = TraceClear]
  /\ TraceUnchanged

\* stm32_i2c_tracenew(priv, status): a new status opens the next entry
\* unless the table is full; the same status is counted
stm32_i2c_tracenew(status) ==
  /\ LET cur == trace[tndx]
     IN  IF cur.count = 0 \/ status # cur.status
         THEN IF cur.count # 0 /\ tndx >= CONFIG_I2C_NTRACE - 1
              THEN UNCHANGED << tndx, trace >>
              ELSE /\ tndx' = IF cur.count # 0 THEN tndx + 1 ELSE tndx
                   /\ trace' = [trace EXCEPT ![tndx'] =
                                   [TraceClear EXCEPT !.status = status,
                                                      !.count = 1]]
         ELSE /\ cur.count < MaxCount
              /\ trace' = [trace EXCEPT ![tndx].count = cur.count + 1]
              /\ UNCHANGED tndx
  /\ TraceUnchanged

\* A stm32_i2c_traceevent that opens the next entry whatever the index
stm32_i2c_traceevent_nocheck(event, parm) ==
  /\ tndx' = tndx + 1
  /\ trace' = [trace EXCEPT ![tndx].event = event, ![tndx].parm = parm]
  /\ TraceUnchanged

\* An entry of the trace with the traced event
WithEvent(e, event, parm) == [e EXCEPT !.event = event, !.parm = parm]

\* stm32_i2c_traceevent(priv, event, parm): the event goes into the
\* current entry, and the next entry is opened unless the table is full
stm32_i2c_traceevent(event, parm) ==
  /\ IF event # I2CEVENT_NONE \/ event # I2CEVENT_POLL_DEV_NOT_RDY
     THEN IF tndx >= CONFIG_I2C_NTRACE - 1
          THEN /\ trace' = [trace EXCEPT ![tndx] = WithEvent(@, event, parm)]
               /\ UNCHANGED tndx
          ELSE /\ tndx' = tndx + 1
               /\ trace' = [trace EXCEPT ![tndx] = WithEvent(@, event, parm),
                                         ![tndx + 1] = TraceClear]
     ELSE UNCHANGED << tndx, trace >>
  /\ TraceUnchanged

\* Sessions during which the tracer is called
TraceSessions ==
  { [PrivInit EXCEPT !.intstate = s, !.msgc = 1, !.msgv = 1, !.dcnt = d] :
      s \in {INTSTATE_IDLE, INTSTATE_WAITING}, d \in {-1, 2} }

\* The tracer after stm32_i2c_tracereset, in some session
TraceInit ==
  /\ polled \in BOOLEAN
  /\ fsmc = FALSE
  /\ priv \in TraceSessions
  /\ sem_excl = 0
  /\ sem_isr = 0
  /\ cr1 = {"PE"}
  /\ cr2 = {}
  /\ sr1 = {}
  /\ dr = 0
  /\ dev = DevInit
  /\ target = "any"
  /\ pc = [t \in Threads |-> IF t = Caller THEN "wait" ELSE "idle"]
  /\ req = << >>
  /\ rxbuf = << >>
  /\ elapsed = 0
  /\ ret = "OK"
  /\ errval = "OK"
  /\ ops = << >>
  /\ abyte = << >>
  /\ loaded = << >>
  /\ last = << >>
  /\ stateerr = FALSE
  /\ now = TimeZero
  /\ abstime = TimeZero
  /\ timeout = 0
  /\ duty = FALSE
  /\ pclk1 = PCLK1_42MHZ
  /\ frequency = 100000
  /\ ccr = stm32_i2c_setclock({}, pclk1, duty, 100000).ccr
  /\ trise = stm32_i2c_setclock({}, pclk1, duty, 100000).trise
  /\ oar1 = I2C_OAR1_ONE
  /\ tndx = 0
  /\ trace = [i \in 0 .. CONFIG_I2C_NTRACE - 1 |-> TraceClear]

\* Any sequence of tracer calls
TraceNext ==
  \/ stm32_i2c_tracereset
  \/ \E status \in TraceStatuses : stm32_i2c_tracenew(status)
  \/ \E event \in TraceEvents, parm \in TraceParms :
        stm32_i2c_traceevent(event, parm)

TraceSpec == TraceInit /\ [][TraceNext]_vars

\* The entries of the trace other than those of the set I
Others(I) == [i \in (DOMAIN trace) \ I |-> trace[i]]

\* C34: in any sequence of stm32_i2c_tracenew and stm32_i2c_traceevent
\* calls after a reset, the trace index stays within 0 .. capacity - 1 and
\* no access falls outside the trace array; once the last entry is
\* reached no further entry is made; and no tracer call changes the
\* session state (dcnt, msgc, msgv, flags, handshake state).
C34_Tracer ==
  /\ [](tndx \in 0 .. CONFIG_I2C_NTRACE - 1)
  /\ [](DOMAIN trace = 0 .. CONFIG_I2C_NTRACE - 1)
  /\ [][ /\ tndx' \in {0, tndx, tndx + 1}
         /\ \A i \in DOMAIN trace :
               trace'[i] # trace[i] => i \in {tndx, tndx'}
         /\ tndx = CONFIG_I2C_NTRACE - 1 =>
               /\ tndx' \in {0, tndx}
               /\ tndx' = tndx =>
                     \A i \in 0 .. CONFIG_I2C_NTRACE - 2 : trace'[i] = trace[i]
         /\ priv' = priv
         /\ rxbuf' = rxbuf
     ]_<< tndx, trace >>

\* The table is full (every entry holds a status) and the call that
\* follows has left the index at the last entry
C34_Witness ==
  /\ tndx = CONFIG_I2C_NTRACE - 1
  /\ \A i \in DOMAIN trace : trace[i].count > 0
  /\ trace[tndx].event = I2CEVENT_ISR_CALL
  /\ priv.intstate = INTSTATE_WAITING

\* The data bytes that the engine took from the buffer of message i
Fetched(i) == SelectSeq(ops, LAMBDA o : o.op = "DRW_DATA" /\ o.idx = i)

\* The byte past the end of the caller's buffer
Foreign(len, i) == BufByte(len, i, len + 1)

\* C35: whatever the status values observed, the engine stores at most L
\* bytes through the buffer pointer during a read message of length L, and
\* reads at most L bytes from the buffer of a write message of length L:
\* it accesses no byte past the end of the caller's buffer.
C35_InBuffer ==
  \A i \in 1 .. Len(req) :
    /\ i <= Len(rxbuf) => Len(rxbuf[i]) <= req[i].length
    /\ Len(Fetched(i)) <= req[i].length
    /\ \A k \in 1 .. Len(Fetched(i)) :
          Fetched(i)[k].val # Foreign(req[i].length, i)
    /\ "READ" \in req[i].flags => Fetched(i) = << >>

\* A read of the greatest length has stored every byte
C35_Witness ==
  /\ Len(req) = 1
  /\ req[1].length = MaxLen
  /\ "READ" \in req[1].flags
  /\ Len(rxbuf[1]) = MaxLen
  /\ Waited

\* Some interrupt of the controller is enabled in CR2
IntsEnabled(c2) == c2 \cap I2C_CR2_ALLINTS # {}

\* A thread is inside the wait of stm32_i2c_sem_waitdone
WaitArmed == \E t \in Threads : pc[t] \in {"wait", "expired"}

\* The step is an invocation of the engine: no thread moves, and the
\* session or the record of the latest invocation changes
EngineInvoked == pc' = pc /\ (priv' # priv \/ last' # last)

\* The step is stm32_i2c_process installing msgv, msgc and dcnt
Installs == \E t \in Threads : pc[t] = "setup" /\ pc'[t] = "arm"

\* C36: in the interrupt build the engine runs only while a wait is armed:
\* the interrupts of the controller get enabled in CR2 only by
\* stm32_i2c_sem_waitdone, in the step that sets the state WAITING, they
\* are all disabled when the wait has returned and when the engine has
\* signalled DONE, and so no engine invocation happens around the step of
\* stm32_i2c_process that installs msgv, msgc and dcnt and requests START.
C36_Gate ==
  /\ []((~polled /\ IntsEnabled(cr2)) =>
          (priv.intstate = INTSTATE_WAITING /\ WaitArmed))
  /\ []((~polled /\ priv.intstate = INTSTATE_DONE) => ~IntsEnabled(cr2))
  /\ [][ ~polled =>
           /\ (~IntsEnabled(cr2) /\ IntsEnabled(cr2')) =>
                 \E t \in Threads :
                   /\ pc[t] = "arm" /\ pc'[t] = "wait"
                   /\ priv'.intstate = INTSTATE_WAITING
                   /\ cr2' = cr2 \cup {"ITERREN", "ITEVFEN"}
           /\ EngineInvoked => (WaitArmed /\ IntsEnabled(cr2))
           /\ Installs =>
                 /\ ~IntsEnabled(cr2) /\ ~IntsEnabled(cr2')
                 /\ "START" \in cr1'
                 /\ priv'.intstate # INTSTATE_WAITING
     ]_vars

\* The engine has run during the wait and has signalled DONE, the
\* interrupts are disabled and the waiting thread has not run yet
C36_Witness ==
  /\ ~polled
  /\ pc[Caller] = "wait"
  /\ priv.intstate = INTSTATE_DONE
  /\ loaded # << >>
  /\ sem_isr = 1
  /\ ~IntsEnabled(cr2)

\* A post of sem_isr is left over: the engine posts when it sets DONE, so
\* a post that is pending while the state is WAITING is that of an earlier
\* transaction
LeftOver == sem_isr > 0 /\ priv.intstate = INTSTATE_WAITING

\* C37: in the interrupt build stm32_i2c_sem_waitdone returns success only
\* when the engine has set the state DONE for the transaction in progress,
\* however the timeout and the handler interleave: a post left over from
\* an earlier transaction, whose completion raced its timeout, does not
\* end a later wait before that transaction is DONE.
C37_Success ==
  /\ [][ \A t \in Threads :
           (~polled /\ pc[t] = "wait" /\ pc'[t] = "post" /\ ret' = "OK") =>
             /\ priv.intstate = INTSTATE_DONE
             /\ Terminated(priv)
             /\ loaded # << >>
     ]_vars
  /\ [][ \A t \in Threads :
           (~polled /\ pc[t] = "wait" /\ LeftOver) =>
             /\ pc'[t] \in {"wait", "expired"}
             /\ sem_isr' < sem_isr => priv'.intstate = INTSTATE_WAITING
     ]_vars
  /\ [](\A t \in Threads :
          (~polled /\ pc[t] = "post" /\ ret = "OK") =>
             (Terminated(priv) /\ loaded # << >>))

\* A later wait is armed, its transaction has not started, and the post
\* of the earlier transaction, which timed out, is still pending
C37_Witness ==
  /\ ~polled
  /\ LeftOver
  /\ \E t \in Threads : pc[t] = "wait"
  /\ loaded = << >>

\* The elements of a sequence
Range(q) == {q[k] : k \in 1 .. Len(q)}

\* The session that the dispatch of the invocation in this step sees:
\* after the switch to the next message, if there is one
Handled == MsgAdvance([priv EXCEPT !.status = priv'.status], req)

\* Read message i is loaded and all its bytes are stored
ReadComplete(i) ==
  /\ "READ" \in req[i].flags
  /\ req[i].length >= 1
  /\ priv.cur = i
  /\ loaded # << >>
  /\ Len(rxbuf[i]) = req[i].length

\* C38: the engine requests a repeated START only in the write branch,
\* after the last byte of a write message; a read message that completes
\* has had a STOP requested and no START, also when messages remain: then
\* msgc > 0 at the STOP, and the engine does not request the START that
\* the following message needs.
C38_ReadStops ==
  /\ [][ (EngineStep /\ stm32_i2c_sendstart \in Range(StartStop(last'))) =>
           /\ FirstPhase(Handled, priv'.status) = "write"
           /\ "READ" \notin Handled.flags
           /\ Handled.dcnt = 0
           /\ Moved(Handled.cur) = req[Handled.cur].length
     ]_vars
  /\ [][ (EngineStep /\ "READ" \in Handled.flags) =>
           stm32_i2c_sendstart \notin Range(StartStop(last')) ]_vars
  /\ [](\A i \in 1 .. Len(req) :
          ReadComplete(i) =>
            /\ StartStop(ops) # << >>
            /\ StartStop(ops)[Len(StartStop(ops))] = stm32_i2c_sendstop
            /\ ~IsLast(i) => (priv.dcnt = -1 => priv.msgc > 0))

\* The first of two messages, a read of the greatest length, is complete:
\* STOP is requested and the second message is still to come
C38_Witness ==
  /\ Len(req) = 2
  /\ req[1].length = MaxLen
  /\ ReadComplete(1)
  /\ priv.dcnt = -1
  /\ priv.msgc = 1
  /\ "STOP" \in cr1
  /\ StartStop(ops) = << stm32_i2c_sendstop >>

\* C39: the length by which the engine chooses between the handling of a
\* 1-byte, a 2-byte and a longer read is the length of the loaded message,
\* for every length, 256 bytes and more included: the 8-bit snapshot
\* total_msg_len is the value loaded into dcnt, and a read is handled as a
\* short read if and only if its length is 1 or 2.
C39_Snapshot ==
  loaded # << >> =>
    LET m == req[priv.cur]
    IN  /\ priv.total_msg_len = m.length
        /\ "READ" \in m.flags =>
              (priv.total_msg_len \in {1, 2} <=> m.length \in {1, 2})

\* The same for the messages whose length fits 8 bits
C39_SnapshotShort ==
  (loaded # << >> /\ req[priv.cur].length <= UINT8_MAX) =>
     priv.total_msg_len = req[priv.cur].length

\* stm32_i2c_process has classified the outcome of a wait that failed
TimedOut == Classified /\ ret # "OK"

\* C40: when the wait times out and the SR1 value that the engine observed
\* last has an error bit set, stm32_i2c_process returns the code of the
\* first such bit in the order bus error, arbitration lost, acknowledge
\* failure, overrun, PEC error, hardware timeout, and not the code of the
\* wait timeout, which it returns only when no SR1 error bit is set.
C40_TimeoutError ==
  TimedOut =>
    /\ ErrorBits # {} =>
          /\ errval = ErrorCode[FirstError(ErrorBits)]
          /\ errval # "ETIMEDOUT"
    /\ errval = "ETIMEDOUT" <=> ErrorBits = {}

\* The wait has timed out after the engine saw an acknowledge failure
\* together with a hardware timeout, and the call returns the code of the
\* acknowledge failure
C40_Witness ==
  /\ TimedOut
  /\ ErrorBits = {"AF", "TIMEOUT"}
  /\ errval = "ENXIO"

============================================================================
